---- MODULE Spec2Model ----
(***************************************************************************)
(* ATLAS reliability pipeline: the /v1/execute handler, the executor's     *)
(* attempt loop, the fallback manager, the validator, skill dispatch, the  *)
(* tool dispatcher and the receipts table.                                 *)
(*                                                                         *)
(* The server runs on one asyncio event loop: a handler runs atomically    *)
(* from one await to the next.  Each action below is one such stretch of   *)
(* code, from the completion of an awaited call to the next awaited call.  *)
(***************************************************************************)
EXTENDS Integers, Sequences, FiniteSets, TLC

(***************************************************************************)
(* Bounds of the model                                                     *)
(***************************************************************************)
\* longest raw_entities list a model reply carries
MaxEntities == 1

(***************************************************************************)
(* Program constants                                                       *)
(***************************************************************************)
MaxAttemptsPerModel == 2
MaxModelsPerRequest == 3

Null == [null |-> TRUE]

IntentTypes ==
    {"CAPTURE_TASKS", "PLAN_DAY", "PROCESS_MEETING_NOTES",
     "SEARCH_SUMMARIZE", "BUILD_WORKFLOW", "UNKNOWN"}

Profiles == {"OFFLINE", "BALANCED", "ACCURACY"}

ContentTriggers == {"INVALID_JSON", "VALIDATION_ERROR"}

FallbackTriggers ==
    ContentTriggers \cup {"TIMEOUT", "RATE_LIMIT", "PROVIDER_DOWN", "CAPABILITY_MISMATCH"}

\* (provider, model) pairs the chains name
Pair(p, m) == [provider |-> p, model |-> m]

OpenaiMini == Pair("openai", "gpt-4o-mini")
Openai4o == Pair("openai", "gpt-4o")
Llama1b == Pair("ollama", "llama3.2:1b")
Llama32 == Pair("ollama", "llama3.2")
Mistral == Pair("ollama", "mistral")
GroqLlama == Pair("groq", "llama-3.1-8b-instant")

Providers == {"ollama", "openai", "groq"}

(***************************************************************************)
(* Sequence helpers                                                        *)
(***************************************************************************)
Range(s) == {s[i] : i \in 1..Len(s)}

Take(s, n) == SubSeq(s, 1, IF n < Len(s) THEN n ELSE Len(s))

PairOf(a) == Pair(a.provider, a.model)

\* number of attempts in `atts` made on pair p
CountPair(atts, p) == Cardinality({i \in 1..Len(atts) : PairOf(atts[i]) = p})

DistinctPairs(atts) == {PairOf(atts[i]) : i \in 1..Len(atts)}

(***************************************************************************)
(* FallbackManager                                                         *)
(***************************************************************************)
\* the INTENT_ROUTING chain of every profile after __init__
DefaultChains ==
    [p \in Profiles |->
        CASE p = "OFFLINE" -> <<Llama1b, Llama32, Mistral>>
          [] p = "BALANCED" -> <<OpenaiMini, Openai4o, Llama1b>>
          [] p = "ACCURACY" -> <<Openai4o, OpenaiMini, Llama1b>>]

\* get_model_chain: the configured chain cut to max_models_per_request
GetModelChain(chainTable, profile) ==
    Take(chainTable[profile], MaxModelsPerRequest)

\* get_first_model
GetFirstModel(chainTable, profile) ==
    LET chain == GetModelChain(chainTable, profile)
    IN  IF Len(chain) > 0 THEN chain[1] ELSE Llama1b

\* first pair of `chain`, in chain order, that is not in `tried`
\* a faulty variant: the chain is scanned bottom-to-top
LastUntried(chain, tried) ==
    LET idx == {i \in 1..Len(chain) : chain[i] \notin tried}
    IN  IF idx = {} THEN Null ELSE chain[CHOOSE i \in idx : \A j \in idx : i >= j]

FirstUntried(chain, tried) ==
    LET idx == {i \in 1..Len(chain) : chain[i] \notin tried}
    IN  IF idx = {} THEN Null
        ELSE chain[CHOOSE i \in idx : \A j \in idx : i <= j]

FailDecision == [action |-> "FAIL", next |-> Null, use_repair_prompt |-> FALSE]

\* a faulty variant: every trigger is retried on the same model
DecideRetryAnyTrigger(trigger, atts, chainTable, profile) ==
    IF Len(atts) = 0 THEN FailDecision
    ELSE
    LET current == PairOf(atts[Len(atts)])
        n == CountPair(atts, current)
        chain == GetModelChain(chainTable, profile)
        tried == DistinctPairs(atts)
        nxt == FirstUntried(chain, tried)
    IN  IF n < MaxAttemptsPerModel
        THEN [action |-> "RETRY_SAME_MODEL", next |-> current,
              use_repair_prompt |-> TRUE]
        ELSE IF Cardinality(tried) >= MaxModelsPerRequest THEN FailDecision
        ELSE IF nxt # Null
        THEN [action |-> "FALLBACK_NEXT_MODEL", next |-> nxt,
              use_repair_prompt |-> FALSE]
        ELSE FailDecision

\* a faulty variant: the per-model cap compared with <= instead of <
DecideRetryOffByOne(trigger, atts, chainTable, profile) ==
    IF Len(atts) = 0 THEN FailDecision
    ELSE
    LET current == PairOf(atts[Len(atts)])
        n == CountPair(atts, current)
        chain == GetModelChain(chainTable, profile)
        tried == DistinctPairs(atts)
        nxt == FirstUntried(chain, tried)
    IN  IF n <= MaxAttemptsPerModel /\ trigger \in ContentTriggers
        THEN [action |-> "RETRY_SAME_MODEL", next |-> current,
              use_repair_prompt |-> TRUE]
        ELSE IF Cardinality(tried) >= MaxModelsPerRequest THEN FailDecision
        ELSE IF nxt # Null
        THEN [action |-> "FALLBACK_NEXT_MODEL", next |-> nxt,
              use_repair_prompt |-> FALSE]
        ELSE FailDecision

\* a faulty variant: the check on the number of distinct models left out
DecideNoModelCap(trigger, atts, chainTable, profile) ==
    IF Len(atts) = 0 THEN FailDecision
    ELSE
    LET current == PairOf(atts[Len(atts)])
        n == CountPair(atts, current)
        chain == GetModelChain(chainTable, profile)
        tried == DistinctPairs(atts)
        nxt == FirstUntried(chain, tried)
    IN  IF n < MaxAttemptsPerModel /\ trigger \in ContentTriggers
        THEN [action |-> "RETRY_SAME_MODEL", next |-> current,
              use_repair_prompt |-> TRUE]
        ELSE IF nxt # Null
        THEN [action |-> "FALLBACK_NEXT_MODEL", next |-> nxt,
              use_repair_prompt |-> FALSE]
        ELSE FailDecision

\* decide
Decide(trigger, atts, chainTable, profile) ==
    IF Len(atts) = 0 THEN FailDecision
    ELSE
    LET current == PairOf(atts[Len(atts)])
        n == CountPair(atts, current)
        chain == GetModelChain(chainTable, profile)
        tried == DistinctPairs(atts)
        nxt == FirstUntried(chain, tried)
    IN  IF n < MaxAttemptsPerModel /\ trigger \in ContentTriggers
        THEN [action |-> "RETRY_SAME_MODEL", next |-> current,
              use_repair_prompt |-> TRUE]
        ELSE IF Cardinality(tried) >= MaxModelsPerRequest THEN FailDecision
        ELSE IF nxt # Null
        THEN [action |-> "FALLBACK_NEXT_MODEL", next |-> nxt,
              use_repair_prompt |-> FALSE]
        ELSE FailDecision

(***************************************************************************)
(* Validator                                                               *)
(*                                                                         *)
(* A mapping produced by the normalizer is a record of the four keys the   *)
(* validator reads.  confidence is [kind, v]: kind "num" carries the       *)
(* number in tenths (v = 5 is 0.5); "numstr" is a JSON string float()      *)
(* parses, "bool" a JSON boolean (v = 0 or 10), "text" any other string,   *)
(* "list" a JSON array, "null" a JSON null and "absent" a missing key;     *)
(* "huge" is a JSON integer beyond the range of a float (1e400 written     *)
(* out in digits).                                                         *)
(* type is a string: a name, "<null>" or "<absent>".  parameters is a      *)
(* shape tag; raw_entities is [kind, items].                               *)
(***************************************************************************)
Conf(kind, v) == [kind |-> kind, v |-> v]

Entities(kind, items) == [kind |-> kind, items |-> items]

\* a task title that is not a string (parameters.tasks[i].title = 5)
NonStringTitle == "<non-string title>"

\* the one entity text of the model: a task title for capture_tasks and an
\* action line ("todo:" is in action_keywords) for process_meeting_notes
TodoLine == "todo: call bob"

VError(f, c) == [field |-> f, code |-> c]

\* float(value) succeeds
FloatParses(c) == c.kind \in {"num", "numstr", "bool"}

\* _validate_confidence raises: float(value) overflows, and OverflowError is
\* neither TypeError nor ValueError
ConfidenceRaises(c) == c.kind = "huge"

\* _validate_confidence: the errors it appends
ConfidenceErrors(c) ==
    IF c.kind = "null" THEN <<VError("confidence", "MISSING_FIELD")>>
    ELSE IF ~FloatParses(c) THEN <<VError("confidence", "INVALID_TYPE")>>
    ELSE IF ~(0 <= c.v /\ c.v <= 10) THEN <<VError("confidence", "OUT_OF_RANGE")>>
    ELSE <<>>

\* _validate_intent_type: the errors it appends
TypeErrors(t) ==
    IF t = "<null>" \/ t \in IntentTypes THEN <<>>
    ELSE <<VError("type", "INVALID_INTENT_TYPE")>>

\* _validate_intent_type: the value it returns (Null for None)
ValidatedType(t) == IF t \in IntentTypes THEN t ELSE "<none>"

\* _validate_parameters raises: membership test or .get on a non-mapping
ParametersRaise(t, shape) ==
    /\ shape = "not_a_dict"
    /\ t = "PROCESS_MEETING_NOTES"

\* _validate_parameters: the errors it appends
ParameterErrors(t, shape) ==
    IF t = "PLAN_DAY" /\ shape = "date_bad"
    THEN <<VError("parameters.date", "INVALID_DATE")>>
    ELSE <<>>

\* _validate_entities: the errors it appends
EntityErrors(e) ==
    IF e.kind = "not_a_list" THEN <<VError("raw_entities", "INVALID_TYPE")>>
    ELSE IF e.kind = "list_with_non_string"
    THEN <<VError("raw_entities[i]", "INVALID_TYPE")>>
    ELSE <<>>

\* Intent(...), a pydantic model, rejects the values: parameters that are
\* not a mapping, a confidence outside [0, 1]
IntentRejects(c, shape) == shape = "not_a_dict" \/ ~(0 <= c /\ c <= 10)

ValidationResult(valid, errors, intent, raised) ==
    [valid |-> valid, errors |-> errors, intent |-> intent, raised |-> raised]

\* validate_intent; raised = TRUE when the call raises instead of returning
ValidateIntent(data) ==
    LET missing ==
            (IF data.type = "<absent>"
             THEN <<VError("type", "MISSING_FIELD")>> ELSE <<>>)
            \o (IF data.confidence.kind = "absent"
                THEN <<VError("confidence", "MISSING_FIELD")>> ELSE <<>>)
        t == ValidatedType(data.type)
        errors ==
            TypeErrors(data.type) \o ConfidenceErrors(data.confidence)
            \o (IF t # "<none>" THEN ParameterErrors(t, data.parameters) ELSE <<>>)
            \o EntityErrors(data.raw_entities)
    IN  IF Len(missing) > 0 THEN ValidationResult(FALSE, missing, Null, FALSE)
        ELSE IF ConfidenceRaises(data.confidence)
        THEN ValidationResult(FALSE, <<>>, Null, TRUE)
        ELSE IF t # "<none>" /\ ParametersRaise(t, data.parameters)
        THEN ValidationResult(FALSE, <<>>, Null, TRUE)
        ELSE IF Len(errors) > 0 THEN ValidationResult(FALSE, errors, Null, FALSE)
        ELSE IF IntentRejects(data.confidence.v, data.parameters)
        THEN ValidationResult(FALSE, <<>>, Null, TRUE)
        ELSE ValidationResult(TRUE, <<>>,
                [type |-> IF t = "<none>" THEN "UNKNOWN" ELSE t,
                 confidence |-> data.confidence.v,
                 parameters |-> IF data.parameters = "<absent>" THEN "empty"
                                ELSE data.parameters,
                 raw_entities |-> IF data.raw_entities.kind = "list"
                                  THEN data.raw_entities.items ELSE <<>>],
                FALSE)

(***************************************************************************)
(* State                                                                   *)
(***************************************************************************)
VARIABLES
    chains,      \* FallbackManager._chains, the INTENT_ROUTING row of each profile
    registered,  \* names of the adapters in ProviderRegistry._providers
    tasks,       \* ids in the task collection
    notes,       \* ids in the note collection
    blocks,      \* ids in the calendar block collection
    workflows,   \* ids in the workflow collection
    nextId,      \* stands for uuid4(): the next fresh id
    rows,        \* the receipts table: [receipt_id, status] per row
    req,         \* per request: the handler's position and its local variables
    mutations,   \* history: per request, the mutations its tool calls applied
    probe        \* a component exercised on its own: its inputs and its result

vars == <<chains, registered, tasks, notes, blocks, workflows, nextId, rows,
          req, mutations, probe>>

Reqs == {1}

(***************************************************************************)
(* Model replies: what adapter.complete returns                            *)
(***************************************************************************)
EntityLists == {<<>>} \cup UNION {[1..n -> {TodoLine}] : n \in 1..MaxEntities}

Mapping(t, c, p, e) ==
    [type |-> t, confidence |-> c, parameters |-> p, raw_entities |-> e]

\* mappings the normalizer extracts from the replies of the model
ReplyMappings ==
    {Mapping("CAPTURE_TASKS", Conf("num", 10), "<absent>", Entities("list", e)) : e \in EntityLists}
    \cup {Mapping("CAPTURE_TASKS", Conf("num", 10), p, Entities("list", e)) :
            p \in {"tasks_str", "tasks_badtitle"}, e \in EntityLists \ {<<>>}}
    \cup {Mapping("PLAN_DAY", Conf("num", 5), "<absent>", Entities("list", e)) : e \in EntityLists}
    \cup {Mapping("PLAN_DAY", Conf("num", 5), "date_bad", Entities("list", <<>>))}
    \cup {Mapping("PROCESS_MEETING_NOTES", Conf("num", 5), p, Entities("list", <<>>)) :
            p \in {"empty", "content_action", "content_number", "not_a_dict"}}
    \cup {Mapping(t, c, "<absent>", Entities("<absent>", <<>>)) :
            t \in {"SEARCH_SUMMARIZE", "BUILD_WORKFLOW", "<null>", "BOGUS"},
            c \in {Conf("num", 0), Conf("num", 11)}}

\* content the normalizer cannot turn into a mapping, with the repairs it
\* applied on the way: none for plain prose
Garbage == [parses |-> FALSE, data |-> Null, repairs |-> <<>>]

\* unparseable content inside a markdown fence: one repair was applied
FencedGarbage == [parses |-> FALSE, data |-> Null, repairs |-> <<"extracted_from_markdown">>]

Replies ==
    {Garbage}
    \cup {[parses |-> TRUE, data |-> m, repairs |-> <<>>] : m \in ReplyMappings}

(***************************************************************************)
(* Receipt and the request's local variables                               *)
(***************************************************************************)
NewReceipt(id) ==
    [receipt_id |-> id, status |-> "PENDING_CONFIRM", models_attempted |-> <<>>,
     intent_set |-> FALSE, tool_calls |-> <<>>, changes |-> <<>>, undo |-> <<>>,
     warnings |-> <<>>, errors |-> <<>>]

NewSkillResult ==
    [success |-> TRUE, tool_calls |-> <<>>, changes |-> <<>>, undo_steps |-> <<>>,
     errors |-> <<>>, warnings |-> <<>>]

NoLocals == [idx |-> 0, created |-> 0, free |-> FALSE, items |-> 0]

Idle ==
    [pc |-> "idle", profile |-> "BALANCED", cur |-> Null, attempts |-> <<>>,
     receipt |-> Null, intent |-> Null, validated |-> Null, chain |-> <<>>,
     use_repair |-> FALSE, decision |-> <<"none">>, called |-> <<>>,
     skill |-> "none", result |-> Null, loc |-> NoLocals, tool |-> "none",
     raised |-> FALSE, at |-> "none"]

ModelAttempt(pair, n, success, trigger) ==
    [provider |-> pair.provider, model |-> pair.model, attempt_number |-> n,
     success |-> success, fallback_trigger |-> trigger]

\* receipt.intent_final: the Intent object the skill context also holds
IntentFinal(st) == IF st.receipt.intent_set THEN st.intent ELSE Null

(***************************************************************************)
(* ToolRegistry.execute and the tools                                      *)
(***************************************************************************)
RiskOf(tool) ==
    CASE tool \in {"CALENDAR_CREATE_BLOCKS", "CALENDAR_DELETE_BLOCKS",
                   "CALENDAR_UPDATE_BLOCK", "WORKFLOW_DELETE"} -> "MEDIUM"
      [] tool = "WORKFLOW_ENABLE" -> "HIGH"
      [] OTHER -> "LOW"

\* the tools lifespan() registers
RegisteredTools ==
    {"TASK_CREATE", "TASK_LIST", "TASK_GET", "TASK_UPDATE", "TASK_DELETE",
     "NOTE_CREATE", "NOTE_SEARCH", "NOTE_GET", "NOTE_UPDATE", "NOTE_DELETE",
     "CALENDAR_GET_DAY", "CALENDAR_CREATE_BLOCKS", "CALENDAR_DELETE_BLOCKS",
     "CALENDAR_UPDATE_BLOCK", "WORKFLOW_SAVE", "WORKFLOW_ENABLE",
     "WORKFLOW_LIST", "WORKFLOW_DELETE"}

\* a faulty variant: only HIGH risk asks for confirmation
RequiresConfirmationHighOnly(tool) == RiskOf(tool) = "HIGH"

\* Tool.requires_confirmation
RequiresConfirmation(tool) == RiskOf(tool) \in {"MEDIUM", "HIGH"}

\* ToolRegistry.execute up to the call of the tool: "FAILED" for an unknown
\* tool, "PENDING_CONFIRM" for a gated one, "RUN" when the tool is awaited
DispatchGate(tool, skip_confirmation) ==
    IF tool \notin RegisteredTools THEN "FAILED"
    ELSE IF RequiresConfirmation(tool) /\ ~skip_confirmation THEN "PENDING_CONFIRM"
    ELSE "RUN"

ToolCall(tool, status) == [tool_name |-> tool, status |-> status]

Change(etype, id, action) ==
    [entity_type |-> etype, entity_id |-> id, action |-> action]

UndoStep(tool, id) == [tool_name |-> tool, entity_id |-> id]

\* the entity kind a tool creates ("none" for a tool that only reads)
Creates(tool) ==
    CASE tool = "TASK_CREATE" -> "task"
      [] tool = "NOTE_CREATE" -> "note"
      [] tool = "CALENDAR_CREATE_BLOCKS" -> "calendar_block"
      [] tool = "WORKFLOW_SAVE" -> "workflow"
      [] OTHER -> "none"

UndoToolOf(tool) ==
    CASE tool = "TASK_CREATE" -> "TASK_DELETE"
      [] tool = "NOTE_CREATE" -> "NOTE_DELETE"
      [] tool = "CALENDAR_CREATE_BLOCKS" -> "CALENDAR_DELETE_BLOCKS"
      [] tool = "WORKFLOW_SAVE" -> "WORKFLOW_DELETE"
      [] OTHER -> "none"

\* the ToolResult of a tool that ran to its end with fresh id `id`; `some`
\* tells whether a reading tool found anything (blocks with free slots,
\* pending tasks, matching notes)
ToolResultOf(tool, id, some) ==
    [success |-> TRUE,
     some |-> some,
     changes |-> IF Creates(tool) = "none" THEN <<>>
                 ELSE <<Change(Creates(tool), id, "created")>>,
     undo_step |-> IF Creates(tool) = "none" THEN Null
                   ELSE UndoStep(UndoToolOf(tool), id)]

(***************************************************************************)
(* Executor.execute: what follows the skill                                *)
(***************************************************************************)
\* execute, lines 120-134: the skill returned st.result
Finalize(st) ==
    LET res == st.result
        calls == st.receipt.tool_calls \o res.tool_calls
    IN  [st EXCEPT
            !.receipt.tool_calls = calls,
            !.receipt.changes = @ \o res.changes,
            !.receipt.undo = @ \o res.undo_steps,
            !.receipt.warnings = @ \o res.warnings,
            !.receipt.errors = @ \o res.errors,
            !.receipt.status =
                IF res.success THEN "SUCCESS"
                ELSE IF Len(calls) > 0 THEN "PARTIAL" ELSE "FAILED",
            !.pc = "awaiting_store"]

\* a faulty variant: the tool calls the skill made before it raised are copied
\* into the receipt
CatchAllKeepingCalls(st) ==
    [st EXCEPT
        !.receipt.tool_calls = @ \o st.result.tool_calls,
        !.receipt.status = "FAILED",
        !.receipt.errors = Append(@, "Unexpected error"),
        !.raised = TRUE,
        !.pc = "awaiting_store"]

\* execute, lines 148-151: the skill raised; its SkillResult is lost
CatchAll(st) ==
    [st EXCEPT
        !.receipt.status = "FAILED",
        !.receipt.errors = Append(@, "Unexpected error"),
        !.raised = TRUE,
        !.pc = "awaiting_store"]

\* the skill awaits tools.execute(tool, ..., skip_confirmation=True)
AwaitTool(st, tool) == [st EXCEPT !.pc = "awaiting_tool", !.tool = tool]

(***************************************************************************)
(* The skills.  Each operator runs a skill from one await to the next: it  *)
(* returns the request suspended on a tool (pc = "awaiting_tool") or       *)
(* already past the skill (pc = "awaiting_store").                         *)
(***************************************************************************)
\* SkillRegistry.get_for_intent with the five skills lifespan() registers
SkillFor(t) ==
    CASE t = "CAPTURE_TASKS" -> "capture_tasks"
      [] t = "PLAN_DAY" -> "plan_day"
      [] t = "PROCESS_MEETING_NOTES" -> "process_meeting_notes"
      [] t = "SEARCH_SUMMARIZE" -> "search_summarize"
      [] t = "BUILD_WORKFLOW" -> "build_workflow"
      [] OTHER -> "none"

\* what capture_tasks appends to intent.raw_entities from parameters["tasks"]
TitlesOf(shape) ==
    CASE shape = "tasks_str" -> <<TodoLine>>
      [] shape = "tasks_badtitle" -> <<NonStringTitle>>
      [] OTHER -> <<>>

\* SkillResult after a tool call: the ToolCall is recorded, and the changes
\* and undo step of a tool that succeeded
\* a faulty variant: the undo step of the tool is dropped
RecordWithoutUndo(res, call, tres) ==
    IF tres # Null /\ tres.success
    THEN [res EXCEPT !.tool_calls = Append(@, call),
                     !.changes = @ \o tres.changes]
    ELSE [res EXCEPT !.tool_calls = Append(@, call)]

Record(res, call, tres) ==
    IF tres # Null /\ tres.success
    THEN [res EXCEPT !.tool_calls = Append(@, call),
                     !.changes = @ \o tres.changes,
                     !.undo_steps = IF tres.undo_step # Null
                                    THEN Append(@, tres.undo_step) ELSE @]
    ELSE [res EXCEPT !.tool_calls = Append(@, call)]

\* capture_tasks: the head of `for entity in entities` and what follows it
CaptureLoop(st) ==
    LET entities == st.intent.raw_entities
    IN  IF st.loc.idx > Len(entities)
        THEN IF st.loc.created = 0
             THEN Finalize([st EXCEPT !.result.success = FALSE,
                                      !.result.errors = Append(@, "Failed to create any tasks")])
             ELSE Finalize(st)
        ELSE IF entities[st.loc.idx] = NonStringTitle
        THEN CatchAll(st)    \* entity.strip() on a non-string
        ELSE AwaitTool(st, "TASK_CREATE")

\* capture_tasks up to its first await
CaptureStart(st) ==
    LET entities == st.intent.raw_entities \o TitlesOf(st.intent.parameters)
        s1 == [st EXCEPT !.intent.raw_entities = entities, !.loc.idx = 1]
    IN  IF Len(entities) = 0
        THEN Finalize([s1 EXCEPT !.result.warnings = Append(@, "No tasks found in input")])
        ELSE CaptureLoop(s1)

\* capture_tasks after TASK_CREATE returned
CaptureResume(st, call, tres) ==
    LET ok == tres # Null /\ tres.success
        s1 == [st EXCEPT
                 !.result = IF ok THEN Record(@, call, tres)
                            ELSE [Record(@, call, tres) EXCEPT
                                     !.warnings = Append(@, "Failed to create task")],
                 !.loc.created = IF ok THEN @ + 1 ELSE @,
                 !.loc.idx = @ + 1]
    IN  CaptureLoop(s1)

\* plan_day after a tool returned; loc.idx is 1 after CALENDAR_GET_DAY, 2
\* after TASK_LIST, 3 after CALENDAR_CREATE_BLOCKS
PlanResume(st, call, tres) ==
    LET ok == tres # Null /\ tres.success
        s1 == [st EXCEPT !.result = Record(@, call, tres)]
    IN  IF st.loc.idx = 1
        THEN AwaitTool([s1 EXCEPT !.loc.idx = 2, !.loc.free = ok /\ tres.some], "TASK_LIST")
        ELSE IF st.loc.idx = 3 THEN Finalize(s1)
        ELSE
        LET to_schedule == (ok /\ tres.some) \/ Len(st.intent.raw_entities) > 0
            planned == to_schedule /\ st.loc.free
            gate == DispatchGate("CALENDAR_CREATE_BLOCKS", FALSE)
        IN  IF ~to_schedule
            THEN Finalize([s1 EXCEPT !.result.warnings = Append(@, "No tasks to schedule")])
            ELSE IF ~planned THEN Finalize(s1)
            ELSE IF gate = "RUN" THEN AwaitTool([s1 EXCEPT !.loc.idx = 3], "CALENDAR_CREATE_BLOCKS")
            ELSE Finalize([s1 EXCEPT !.result.tool_calls =
                              Append(@, ToolCall("CALENDAR_CREATE_BLOCKS", gate))])

\* the number of action items _extract_action_items finds; -1 when it raises
ActionItems(intent) ==
    CASE intent.parameters = "content_number" -> -1
      [] intent.parameters = "content_action" -> 1
      [] OTHER -> Len(intent.raw_entities)

\* process_meeting_notes: the head of `for item in action_items`
MeetingLoop(st) ==
    IF st.loc.idx > st.loc.items THEN Finalize(st)
    ELSE AwaitTool(st, "TASK_CREATE")

\* process_meeting_notes after a tool returned; loc.idx is 0 after
\* NOTE_CREATE and counts the action items after that
MeetingResume(st, call, tres) ==
    LET s1 == [st EXCEPT !.result = Record(@, call, tres)]
    IN  IF st.loc.idx = 0
        THEN IF ActionItems(st.intent) < 0 THEN CatchAll(s1)
             ELSE MeetingLoop([s1 EXCEPT !.loc.idx = 1, !.loc.items = ActionItems(st.intent)])
        ELSE MeetingLoop([s1 EXCEPT !.loc.idx = @ + 1])

\* search_summarize after NOTE_SEARCH returned
SearchResume(st, call, tres) ==
    LET ok == tres # Null /\ tres.success
        s1 == [st EXCEPT !.result = Record(@, call, tres)]
    IN  IF ok /\ tres.some THEN Finalize(s1)
        ELSE Finalize([s1 EXCEPT !.result.warnings = Append(@, "No results found for query")])

\* build_workflow: no await
BuildWorkflow(st, id) ==
    Finalize([st EXCEPT
        !.result.changes = Append(@, Change("workflow", id, "created")),
        !.result.undo_steps = Append(@, UndoStep("WORKFLOW_DELETE", id))])

\* execute, lines 113-138, and _execute_skill: from the classified intent to
\* the skill's first await; `id` is the id a workflow created here gets
SkillStart(st, id) ==
    LET skill == SkillFor(st.intent.type)
        s0 == [st EXCEPT !.receipt.intent_set = TRUE, !.skill = skill]
        s1 == [s0 EXCEPT !.result = NewSkillResult]
    IN  CASE skill = "none" ->
               [s0 EXCEPT !.receipt.status = "SUCCESS",
                          !.receipt.warnings = Append(@, "No skill registered for intent"),
                          !.pc = "awaiting_store"]
          [] skill = "capture_tasks" -> CaptureStart(s1)
          [] skill = "plan_day" -> AwaitTool([s1 EXCEPT !.loc.idx = 1], "CALENDAR_GET_DAY")
          [] skill = "process_meeting_notes" -> AwaitTool(s1, "NOTE_CREATE")
          [] skill = "search_summarize" -> AwaitTool(s1, "NOTE_SEARCH")
          [] skill = "build_workflow" -> BuildWorkflow(s1, id)

\* the skill resumed when the awaited tool call returns
SkillResume(st, call, tres) ==
    CASE st.skill = "capture_tasks" -> CaptureResume(st, call, tres)
      [] st.skill = "plan_day" -> PlanResume(st, call, tres)
      [] st.skill = "process_meeting_notes" -> MeetingResume(st, call, tres)
      [] st.skill = "search_summarize" -> SearchResume(st, call, tres)

(***************************************************************************)
(* Executor._classify_intent                                               *)
(***************************************************************************)
\* a faulty variant: attempt_number counts every earlier record
AttemptedCountsAll(st, success, trigger, warnings, errors) ==
    LET a == ModelAttempt(st.cur, Len(st.attempts) + 1, success, trigger)
    IN  [st EXCEPT !.attempts = Append(@, a),
                   !.receipt.models_attempted = Append(@, a),
                   !.receipt.warnings = @ \o warnings,
                   !.receipt.errors = @ \o errors]

\* a failed or successful attempt on the current model is recorded, in the
\* local list and in the receipt
Attempted(st, success, trigger, warnings, errors) ==
    LET a == ModelAttempt(st.cur, CountPair(st.attempts, st.cur) + 1, success, trigger)
    IN  [st EXCEPT !.attempts = Append(@, a),
                   !.receipt.models_attempted = Append(@, a),
                   !.receipt.warnings = @ \o warnings,
                   !.receipt.errors = @ \o errors]

\* a faulty variant: once decide stops retrying a model whose output was not
\* usable, the loop forgets its attempts and starts over on the same model
DecidedStartsOver(st, trigger, chainTable) ==
    LET d == Decide(trigger, st.attempts, chainTable, st.profile)
        s1 == [st EXCEPT !.decision = IF d.use_repair_prompt
                                      THEN <<d.action, "+repair">> ELSE <<d.action>>]
    IN  IF trigger \in {"INVALID_JSON", "VALIDATION_ERROR"} /\ d.action # "RETRY_SAME_MODEL"
        THEN [st EXCEPT !.attempts = <<>>, !.called = <<>>, !.decision = <<"none">>,
                        !.receipt.models_attempted = <<>>, !.receipt.warnings = <<>>,
                        !.receipt.errors = <<>>, !.pc = "loop"]
        ELSE IF d.action = "FAIL" THEN [s1 EXCEPT !.pc = "unclassified"]
        ELSE [s1 EXCEPT !.cur = IF d.next # Null THEN d.next ELSE @, !.pc = "loop"]

\* fallback.decide is asked; FAIL ends the classification with None.
\* decision keeps what decide returned: its action, and "+repair" when
\* use_repair_prompt is set
Decided(st, trigger, chainTable) ==
    LET d == Decide(trigger, st.attempts, chainTable, st.profile)
        s1 == [st EXCEPT !.decision = IF d.use_repair_prompt
                                      THEN <<d.action, "+repair">> ELSE <<d.action>>]
    IN  IF d.action = "FAIL" THEN [s1 EXCEPT !.pc = "unclassified"]
        ELSE [s1 EXCEPT !.cur = IF d.next # Null THEN d.next ELSE @, !.pc = "loop"]

\* a faulty variant: every prompt carries the repair suffix
UseRepairAlways(st) == TRUE

\* use_repair = current_attempt_num > 1
UseRepair(st) == CountPair(st.attempts, st.cur) + 1 > 1

\* the head of `while True`, through the providers that are not registered,
\* up to the await of provider.complete or the end of the classification
RECURSIVE LoopHead(_, _, _)
LoopHead(st, chainTable, reg) ==
    IF st.pc # "loop" THEN st
    ELSE IF st.cur.provider \notin reg
    THEN LoopHead(Decided(Attempted(st, FALSE, "PROVIDER_DOWN",
                                    <<"Provider not available">>, <<>>),
                          "PROVIDER_DOWN", chainTable),
                  chainTable, reg)
    ELSE [st EXCEPT !.pc = "awaiting_model", !.use_repair = UseRepair(st)]

\* `except Exception` around the model call
OnException(st, chainTable) ==
    Decided(Attempted(st, FALSE, "PROVIDER_DOWN", <<>>,
                      <<"Unexpected error during classification">>),
            "PROVIDER_DOWN", chainTable)

\* `except ProviderError` around the model call
OnProviderError(st, trigger, chainTable) ==
    Decided(Attempted(st, FALSE, trigger, <<"Provider error">>, <<>>),
            trigger, chainTable)

\* a faulty variant: the attempt that classified the input is not recorded
OnReplyUnrecorded(st, c, chainTable) ==
    IF ~c.parses
    THEN Decided(Attempted(st, FALSE, "INVALID_JSON",
                           IF c.repairs # <<>> THEN <<"JSON repairs attempted">> ELSE <<>>,
                           <<>>),
                 "INVALID_JSON", chainTable)
    ELSE LET v == ValidateIntent(c.data)
         IN  IF v.raised THEN OnException(st, chainTable)
             ELSE IF ~v.valid
             THEN Decided(Attempted(st, FALSE, "VALIDATION_ERROR",
                                    <<"Validation errors">>, <<>>),
                          "VALIDATION_ERROR", chainTable)
             ELSE [st EXCEPT !.pc = "classified", !.intent = v.intent,
                             !.validated = v.intent]

\* provider.complete returned the text c
OnReply(st, c, chainTable) ==
    IF ~c.parses
    THEN Decided(Attempted(st, FALSE, "INVALID_JSON",
                           IF c.repairs # <<>> THEN <<"JSON repairs attempted">> ELSE <<>>,
                           <<>>),
                 "INVALID_JSON", chainTable)
    ELSE LET v == ValidateIntent(c.data)
         IN  IF v.raised THEN OnException(st, chainTable)
             ELSE IF ~v.valid
             THEN Decided(Attempted(st, FALSE, "VALIDATION_ERROR",
                                    <<"Validation errors">>, <<>>),
                          "VALIDATION_ERROR", chainTable)
             ELSE [Attempted(st, TRUE, "none", <<>>, <<>>) EXCEPT
                      !.pc = "classified", !.intent = v.intent,
                      !.validated = v.intent]

\* a faulty variant: a classification that failed is reported as SUCCESS
AfterClassifyReportsSuccess(st, id) ==
    IF st.pc = "classified" THEN SkillStart(st, id)
    ELSE IF st.pc = "unclassified"
    THEN [st EXCEPT !.receipt.status = "SUCCESS",
                    !.receipt.errors = Append(@, "Failed to classify intent after all attempts"),
                    !.pc = "awaiting_store"]
    ELSE st

\* execute after _classify_intent returned (or did not yet)
AfterClassify(st, id) ==
    IF st.pc = "classified" THEN SkillStart(st, id)
    ELSE IF st.pc = "unclassified"
    THEN [st EXCEPT !.receipt.status = "FAILED",
                    !.receipt.errors = Append(@, "Failed to classify intent after all attempts"),
                    !.pc = "awaiting_store"]
    ELSE st

(***************************************************************************)
(* Actions: each is one stretch of a handler between two awaits            *)
(***************************************************************************)
\* routing profiles a request names; a name outside the enum falls to BALANCED
RequestProfiles == {"BALANCED", "turbo"}

RoutingProfileOf(name) == IF name \in Profiles THEN name ELSE "BALANCED"

\* what provider.complete can do
ModelOutcomes ==
    {[kind |-> "reply", reply |-> c] : c \in Replies}
    \cup {[kind |-> k, reply |-> Garbage] : k \in {"rate_limit", "provider_down", "exception"}}

\* what an awaited tool can do: succeed with or without findings, or raise
ToolOutcomes == {"ok", "empty", "raise"}

\* chains configure_chain installs for BALANCED
ChainChoices == {<<GroqLlama, Mistral, Openai4o, Llama1b>>}

Init ==
    /\ chains = DefaultChains
    /\ registered \in {{"ollama"}, {"ollama", "openai"}}
    /\ tasks = {} /\ notes = {} /\ blocks = {} /\ workflows = {}
    /\ nextId = 1
    /\ rows = <<>>
    /\ req = [r \in Reqs |-> Idle]
    /\ mutations = [r \in Reqs |-> <<>>]
    /\ probe = Null

\* POST /v1/execute up to the first await
ExecuteV1(r, name) ==
    /\ req[r].pc = "idle"
    /\ LET s0 == [Idle EXCEPT !.pc = "loop",
                              !.profile = RoutingProfileOf(name),
                              !.cur = GetFirstModel(chains, RoutingProfileOf(name)),
                              !.chain = GetModelChain(chains, RoutingProfileOf(name)),
                              !.receipt = NewReceipt(r)]
       IN  req' = [req EXCEPT ![r] = AfterClassify(LoopHead(s0, chains, registered), nextId)]
    /\ UNCHANGED <<chains, registered, tasks, notes, blocks, workflows, nextId, rows, mutations, probe>>

\* a faulty variant: the requests append to one list of attempts
AttemptReturnSharedAttempts(r, o) ==
    /\ req[r].pc = "awaiting_model"
    /\ LET shared == IF \E q \in DOMAIN req : q # r
                     THEN req[CHOOSE q \in DOMAIN req : q # r].attempts ELSE <<>>
           st == [req[r] EXCEPT !.called = Append(@, [pair |-> req[r].cur,
                                                      use_repair |-> req[r].use_repair]),
                                !.attempts = shared \o @]
           s1 == CASE o.kind = "reply" -> OnReply(st, o.reply, chains)
                   [] o.kind = "rate_limit" -> OnProviderError(st, "RATE_LIMIT", chains)
                   [] o.kind = "provider_down" -> OnProviderError(st, "PROVIDER_DOWN", chains)
                   [] o.kind = "exception" -> OnException(st, chains)
           s2 == AfterClassify(LoopHead(s1, chains, registered), nextId)
           built == s2.skill = "build_workflow"
       IN  /\ req' = [req EXCEPT ![r] = s2]
           /\ workflows' = IF built THEN workflows \cup {nextId} ELSE workflows
           /\ nextId' = IF built THEN nextId + 1 ELSE nextId
           /\ mutations' = IF built
                           THEN [mutations EXCEPT ![r] = Append(@, Change("workflow", nextId, "created"))]
                           ELSE mutations
    /\ UNCHANGED <<chains, registered, tasks, notes, blocks, rows, probe>>

\* provider.complete returns or raises; the handler runs to its next await
AttemptReturn(r, o) ==
    /\ req[r].pc = "awaiting_model"
    /\ LET st == [req[r] EXCEPT !.called = Append(@, [pair |-> req[r].cur,
                                                      use_repair |-> req[r].use_repair])]
           s1 == CASE o.kind = "reply" -> OnReply(st, o.reply, chains)
                   [] o.kind = "rate_limit" -> OnProviderError(st, "RATE_LIMIT", chains)
                   [] o.kind = "provider_down" -> OnProviderError(st, "PROVIDER_DOWN", chains)
                   [] o.kind = "exception" -> OnException(st, chains)
           s2 == AfterClassify(LoopHead(s1, chains, registered), nextId)
           built == s2.skill = "build_workflow"
       IN  /\ req' = [req EXCEPT ![r] = s2]
           /\ workflows' = IF built THEN workflows \cup {nextId} ELSE workflows
           /\ nextId' = IF built THEN nextId + 1 ELSE nextId
           /\ mutations' = IF built
                           THEN [mutations EXCEPT ![r] = Append(@, Change("workflow", nextId, "created"))]
                           ELSE mutations
    /\ UNCHANGED <<chains, registered, tasks, notes, blocks, rows, probe>>

\* the awaited tool returns or raises; the skill runs to its next await
ToolReturn(r, o) ==
    /\ req[r].pc = "awaiting_tool"
    /\ o = "empty" => Creates(req[r].tool) = "none"
    /\ LET st == req[r]
           kind == IF o = "raise" THEN "none" ELSE Creates(st.tool)
           tres == IF o = "raise" THEN Null ELSE ToolResultOf(st.tool, nextId, o = "ok")
           call == ToolCall(st.tool, IF o = "raise" THEN "FAILED" ELSE "OK")
       IN  /\ req' = [req EXCEPT ![r] = SkillResume(st, call, tres)]
           /\ tasks' = IF kind = "task" THEN tasks \cup {nextId} ELSE tasks
           /\ notes' = IF kind = "note" THEN notes \cup {nextId} ELSE notes
           /\ blocks' = IF kind = "calendar_block" THEN blocks \cup {nextId} ELSE blocks
           /\ nextId' = IF kind # "none" THEN nextId + 1 ELSE nextId
           /\ mutations' = IF kind # "none"
                           THEN [mutations EXCEPT ![r] = Append(@, Change(kind, nextId, "created"))]
                           ELSE mutations
    /\ UNCHANGED <<chains, registered, workflows, rows, probe>>

\* execute_v1 after executor.execute returned: receipts_store.create commits
\* the row and the receipt is the response, or the INSERT raises
StoreReturn(r, ok) ==
    /\ req[r].pc = "awaiting_store"
    /\ IF ok
       THEN /\ rows' = Append(rows, [receipt_id |-> req[r].receipt.receipt_id,
                                     status |-> req[r].receipt.status])
            /\ req' = [req EXCEPT ![r].pc = "responded"]
       ELSE /\ rows' = rows
            /\ req' = [req EXCEPT ![r].pc = "error"]
    /\ UNCHANGED <<chains, registered, tasks, notes, blocks, workflows, nextId, mutations, probe>>

\* the task of the request is cancelled at the await it is suspended on:
\* CancelledError is not an Exception, no handler of the request catches it
Cancel(r) ==
    /\ req[r].pc \in {"awaiting_model", "awaiting_tool", "awaiting_store"}
    /\ req' = [req EXCEPT ![r].pc = "cancelled", ![r].at = req[r].pc]
    /\ UNCHANGED <<chains, registered, tasks, notes, blocks, workflows, nextId, rows, mutations, probe>>

\* FallbackManager.configure_chain
ConfigureChain(profile, models) ==
    /\ chains' = [chains EXCEPT ![profile] = models]
    /\ UNCHANGED <<registered, tasks, notes, blocks, workflows, nextId, rows, req, mutations, probe>>

\* POST /api/providers/{name}/configure: the adapter is replaced, or left
\* out when the key is missing
ConfigureProvider(name, has_key) ==
    /\ registered' = IF name = "ollama" \/ has_key THEN registered \cup {name}
                     ELSE registered \ {name}
    /\ UNCHANGED <<chains, tasks, notes, blocks, workflows, nextId, rows, req, mutations, probe>>

Next ==
    \/ \E r \in Reqs, name \in RequestProfiles : ExecuteV1(r, name)
    \/ \E r \in Reqs, o \in ModelOutcomes : AttemptReturn(r, o)
    \/ \E r \in Reqs, o \in ToolOutcomes : ToolReturn(r, o)
    \/ \E r \in Reqs, ok \in BOOLEAN : StoreReturn(r, ok)
    \/ \E r \in Reqs : Cancel(r)
    \/ \E models \in ChainChoices : ConfigureChain("BALANCED", models)
    \/ \E name \in {"openai"}, has_key \in BOOLEAN : ConfigureProvider(name, has_key)

Spec == Init /\ [][Next]_vars

(***************************************************************************)
(* FallbackManager.decide on its own: any list of attempts, any trigger,   *)
(* under each chain table.  decide reads only the provider and the model   *)
(* of an attempt, so the attempts of a probe differ in nothing else.       *)
(***************************************************************************)
\* the longest list of attempts the executor can pass to decide
MaxProbeLen == MaxAttemptsPerModel * MaxModelsPerRequest

ProbePairs == {OpenaiMini, Openai4o, Llama1b, GroqLlama}

\* chain tables: the default one, and BALANCED replaced by configure_chain
DecideChainTables ==
    {DefaultChains} \cup
    {[DefaultChains EXCEPT !["BALANCED"] = c] : c \in ChainChoices \cup {<<>>}}

\* the state the server is in when nothing has been requested
Quiet ==
    /\ registered = {"ollama"}
    /\ tasks = {} /\ notes = {} /\ blocks = {} /\ workflows = {}
    /\ nextId = 1
    /\ rows = <<>>
    /\ req = [r \in Reqs |-> Idle]
    /\ mutations = [r \in Reqs |-> <<>>]

InitDecide ==
    /\ Quiet
    /\ chains \in DecideChainTables
    /\ probe = [attempts |-> <<>>, trigger |-> "none", decision |-> Null]

\* one more failed attempt is in the list
ProbeAttempt(pair) ==
    /\ Len(probe.attempts) < MaxProbeLen
    /\ probe' = [attempts |-> Append(probe.attempts,
                                ModelAttempt(pair, CountPair(probe.attempts, pair) + 1,
                                             FALSE, "PROVIDER_DOWN")),
                 trigger |-> "none", decision |-> Null]
    /\ UNCHANGED <<chains, registered, tasks, notes, blocks, workflows, nextId, rows, req, mutations>>

\* fallback.decide(trigger, attempts, BALANCED, INTENT_ROUTING)
ProbeDecide(trigger) ==
    /\ probe' = [probe EXCEPT !.trigger = trigger,
                              !.decision = Decide(trigger, probe.attempts, chains, "BALANCED")]
    /\ UNCHANGED <<chains, registered, tasks, notes, blocks, workflows, nextId, rows, req, mutations>>

NextDecide ==
    \/ \E pair \in ProbePairs : ProbeAttempt(pair)
    \/ \E trigger \in FallbackTriggers : ProbeDecide(trigger)

SpecDecide == InitDecide /\ [][NextDecide]_vars

(***************************************************************************)
(* The classification loop alone: the chain is installed before the       *)
(* request and stays, and the replies are those whose skill awaits no tool *)
(***************************************************************************)
\* replies of provider.complete: unparseable with and without repairs, and
\* mappings of the intent types that lead to no tool call
ClassifyReplies ==
    {Garbage, FencedGarbage}
    \cup {c \in Replies : c.parses /\ c.data.type \in {"BUILD_WORKFLOW", "<null>", "BOGUS"}}

ClassifyOutcomes ==
    {[kind |-> "reply", reply |-> c] : c \in ClassifyReplies}
    \cup {[kind |-> k, reply |-> Garbage] : k \in {"rate_limit", "provider_down", "exception"}}

InitClassify ==
    /\ chains \in DecideChainTables
    /\ registered \in {{"ollama"}, {"ollama", "openai"}}
    /\ tasks = {} /\ notes = {} /\ blocks = {} /\ workflows = {}
    /\ nextId = 1
    /\ rows = <<>>
    /\ req = [r \in Reqs |-> Idle]
    /\ mutations = [r \in Reqs |-> <<>>]
    /\ probe = Null

NextClassify ==
    \/ \E r \in Reqs, name \in RequestProfiles : ExecuteV1(r, name)
    \/ \E r \in Reqs, o \in ClassifyOutcomes : AttemptReturn(r, o)
    \/ \E r \in Reqs, ok \in BOOLEAN : StoreReturn(r, ok)
    \/ \E r \in Reqs : Cancel(r)
    \/ \E name \in {"openai"}, has_key \in BOOLEAN : ConfigureProvider(name, has_key)

SpecClassify == InitClassify /\ [][NextClassify]_vars

(***************************************************************************)
(* Two requests on one Executor, interleaved at their awaits.  The chains  *)
(* and the providers stay as installed; the replies lead to no tool call.  *)
(***************************************************************************)
PairReqs == {1, 2}

PairOutcomes ==
    {[kind |-> "reply", reply |-> c] :
        c \in {Garbage} \cup {c \in Replies : c.parses /\ c.data.type = "<null>"
                                                  /\ c.data.confidence.v = 0}}
    \cup {[kind |-> "provider_down", reply |-> Garbage]}

InitPair ==
    /\ chains = DefaultChains
    /\ registered \in {{"ollama"}, {"ollama", "openai"}}
    /\ tasks = {} /\ notes = {} /\ blocks = {} /\ workflows = {}
    /\ nextId = 1
    /\ rows = <<>>
    /\ req = [r \in PairReqs |-> Idle]
    /\ mutations = [r \in PairReqs |-> <<>>]
    /\ probe = Null

NextPair ==
    \/ \E r \in PairReqs, name \in {"BALANCED"} : ExecuteV1(r, name)
    \/ \E r \in PairReqs, o \in PairOutcomes : AttemptReturn(r, o)
    \/ \E r \in PairReqs, ok \in {TRUE} : StoreReturn(r, ok)

SpecPair == InitPair /\ [][NextPair]_vars

(***************************************************************************)
(* The server under the assumption that every awaited adapter call and     *)
(* every awaited tool call returns or raises.  The replies are garbage, a  *)
(* CAPTURE_TASKS intent with one entity and an intent without a skill.     *)
(***************************************************************************)
LiveOutcomes ==
    {[kind |-> "reply", reply |-> c] :
        c \in {Garbage}
              \cup {c \in Replies : /\ c.parses
                                     /\ c.data.type \in {"CAPTURE_TASKS", "<null>"}
                                     /\ c.data.parameters = "<absent>"
                                     /\ c.data.confidence.v \in {0, 10}}}
    \cup {[kind |-> "provider_down", reply |-> Garbage]}

\* provider.complete returns or raises
ModelReturns == \E r \in Reqs, o \in LiveOutcomes : AttemptReturn(r, o)

\* the awaited tool returns or raises
ToolReturns == \E r \in Reqs, o \in {"ok", "raise"} : ToolReturn(r, o)

NextLive ==
    \/ \E r \in Reqs, name \in {"BALANCED"} : ExecuteV1(r, name)
    \/ ModelReturns
    \/ ToolReturns
    \/ \E r \in Reqs, ok \in {TRUE} : StoreReturn(r, ok)
    \/ \E r \in Reqs : Cancel(r)
    \/ \E models \in ChainChoices : ConfigureChain("BALANCED", models)
    \/ \E name \in {"openai"}, has_key \in BOOLEAN : ConfigureProvider(name, has_key)

\* a request is suspended in provider.complete: the guard of ModelReturns
ModelPending == \E r \in Reqs : req[r].pc = "awaiting_model"

\* weak fairness of ModelReturns, WF_vars(ModelReturns), with its enabling
\* condition written as the guard of AttemptReturn (every return appends to
\* `called`, so the step always changes vars)
ModelFair == []<>(~ModelPending) \/ []<><<ModelReturns>>_vars

\* every awaited provider call and every awaited tool call returns or raises
SpecLive == Init /\ [][NextLive]_vars /\ ModelFair /\ WF_vars(ToolReturns)

(***************************************************************************)
(* The tools on their storage.  A world holds the four in-memory           *)
(* collections as sets of entities with the fields the tools rewrite, the  *)
(* next fresh id (uuid4) and the clock (datetime.utcnow).  An MCP call is "down" (no     *)
(* success), "data" (success with a non-empty body) or "empty" (success    *)
(* with an empty body).  Id 0 is an id the in-memory storage never holds:  *)
(* the id the MCP server reports, or a stale one.                          *)
(***************************************************************************)
\* how many entities the collection under study holds before the call
MaxStored == 2

World0 ==
    [tasks |-> {}, notes |-> {}, blocks |-> {}, workflows |-> {}, nextId |-> 1, now |-> 0]

McpOutcomes == {"down", "data", "empty"}

\* `response.success and response.data`
McpHit(m) == m = "data"

\* `response.success`
McpOk(m) == m \in {"data", "empty"}

Outcome(w, res) == [w |-> w, res |-> res]

ToolResult(source, changes, undo_step) ==
    [success |-> TRUE, source |-> source, changes |-> changes, undo_step |-> undo_step]

Failure == [success |-> FALSE, source |-> "none", changes |-> <<>>, undo_step |-> Null]

Undo(tool, args) == [tool_name |-> tool, args |-> args]

ById(coll, id) == {e \in coll : e.id = id}

\* `for key, value in updates.items(): if key in allowed_fields: e[key] = value`
Patch(e, updates, allowed) ==
    [f \in DOMAIN e |-> IF f \in DOMAIN updates \cap allowed THEN updates[f] ELSE e[f]]

\* `{k: before.get(k) for k in updates.keys()}`
Previous(e, updates) ==
    [k \in DOMAIN updates |-> IF k \in DOMAIN e THEN e[k] ELSE Null]

TaskCreate(w, args, m) ==
    IF McpHit(m.call)
    THEN Outcome(w, ToolResult("mcp", <<Change("task", 0, "created")>>,
                               Undo("TASK_DELETE", [task_id |-> 0])))
    ELSE LET task == [id |-> w.nextId, title |-> args.title, status |-> "pending",
                      updated_at |-> w.now]
         IN  Outcome([w EXCEPT !.tasks = @ \cup {task}, !.nextId = @ + 1],
                     ToolResult("local", <<Change("task", task.id, "created")>>,
                                Undo("TASK_DELETE", [task_id |-> task.id])))

TaskUpdate(w, args, m) ==
    IF McpHit(m.call)
    THEN Outcome(w, ToolResult("mcp", <<Change("task", args.task_id, "updated")>>, Null))
    ELSE IF ById(w.tasks, args.task_id) = {} THEN Outcome(w, Failure)
    ELSE LET before == CHOOSE e \in ById(w.tasks, args.task_id) : TRUE
             task == [Patch(before, args.updates, {"title", "status"}) EXCEPT
                         !.updated_at = w.now]
         IN  Outcome([w EXCEPT !.tasks = (@ \ {before}) \cup {task}],
                     ToolResult("local", <<Change("task", args.task_id, "updated")>>,
                                Undo("TASK_UPDATE",
                                     [task_id |-> args.task_id,
                                      updates |-> Previous(before, args.updates)])))

\* a faulty variant: the in-memory task is reported deleted and left stored
TaskDeleteLeaves(w, args, m) ==
    IF ById(w.tasks, args.task_id) = {} THEN Outcome(w, Failure)
    ELSE Outcome(w, ToolResult("local", <<Change("task", args.task_id, "deleted")>>, Null))

TaskDelete(w, args, m) ==
    IF McpOk(m.call)
    THEN Outcome(w, ToolResult("mcp", <<Change("task", args.task_id, "deleted")>>,
                               IF McpHit(m.get)
                               THEN Undo("TASK_CREATE", [title |-> "a"])
                               ELSE Null))
    ELSE IF ById(w.tasks, args.task_id) = {} THEN Outcome(w, Failure)
    ELSE LET task == CHOOSE e \in ById(w.tasks, args.task_id) : TRUE
         IN  Outcome([w EXCEPT !.tasks = @ \ {task}],
                     ToolResult("local", <<Change("task", args.task_id, "deleted")>>,
                                Undo("TASK_CREATE", [title |-> task.title])))

NoteCreate(w, args, m) ==
    IF McpHit(m.call)
    THEN Outcome(w, ToolResult("mcp", <<Change("note", 0, "created")>>,
                               Undo("NOTE_DELETE", [note_id |-> 0])))
    ELSE LET note == [id |-> w.nextId, title |-> args.title, updated_at |-> w.now]
         IN  Outcome([w EXCEPT !.notes = @ \cup {note}, !.nextId = @ + 1],
                     ToolResult("local", <<Change("note", note.id, "created")>>,
                                Undo("NOTE_DELETE", [note_id |-> note.id])))

NoteUpdate(w, args, m) ==
    IF McpHit(m.call)
    THEN Outcome(w, ToolResult("mcp", <<Change("note", args.note_id, "updated")>>, Null))
    ELSE IF ById(w.notes, args.note_id) = {} THEN Outcome(w, Failure)
    ELSE LET before == CHOOSE e \in ById(w.notes, args.note_id) : TRUE
             note == [Patch(before, args.updates, {"title"}) EXCEPT !.updated_at = w.now]
         IN  Outcome([w EXCEPT !.notes = (@ \ {before}) \cup {note}],
                     ToolResult("local", <<Change("note", args.note_id, "updated")>>,
                                Undo("NOTE_UPDATE",
                                     [note_id |-> args.note_id,
                                      updates |-> Previous(before, args.updates)])))

NoteDelete(w, args, m) ==
    IF McpOk(m.call)
    THEN Outcome(w, ToolResult("mcp", <<Change("note", args.note_id, "deleted")>>,
                               IF McpHit(m.get)
                               THEN Undo("NOTE_CREATE", [title |-> "a"])
                               ELSE Null))
    ELSE IF ById(w.notes, args.note_id) = {} THEN Outcome(w, Failure)
    ELSE LET note == CHOOSE e \in ById(w.notes, args.note_id) : TRUE
         IN  Outcome([w EXCEPT !.notes = @ \ {note}],
                     ToolResult("local", <<Change("note", args.note_id, "deleted")>>,
                                Undo("NOTE_CREATE", [title |-> note.title])))

CalendarCreateBlocks(w, args, m) ==
    LET n == Len(args.blocks)
    IN  IF n = 0 THEN Outcome(w, Failure)
        ELSE IF McpHit(m.call)
        THEN Outcome(w, ToolResult("mcp",
                                   [i \in 1..n |-> Change("calendar_block", 0, "created")],
                                   Undo("CALENDAR_DELETE_BLOCKS",
                                        [block_ids |-> [i \in 1..n |-> 0]])))
        ELSE LET block(i) == [id |-> w.nextId + i - 1, date |-> args.date,
                              title |-> args.blocks[i].title]
             IN  Outcome([w EXCEPT !.blocks = @ \cup {block(i) : i \in 1..n},
                                   !.nextId = @ + n],
                         ToolResult("local",
                                    [i \in 1..n |-> Change("calendar_block", block(i).id, "created")],
                                    Undo("CALENDAR_DELETE_BLOCKS",
                                         [block_ids |-> [i \in 1..n |-> block(i).id]])))

CalendarDeleteBlocks(w, args, m) ==
    LET ids == args.block_ids
        \* _calendar_blocks.pop finds the id, and did not pop it before
        popped(i) == /\ ById(w.blocks, ids[i]) # {}
                     /\ \A j \in 1..(i - 1) : ids[j] # ids[i]
        found == SelectSeq([i \in 1..Len(ids) |-> i], popped)
        deleted == [k \in 1..Len(found) |-> CHOOSE e \in ById(w.blocks, ids[found[k]]) : TRUE]
    IN  IF Len(ids) = 0 THEN Outcome(w, Failure)
        ELSE IF McpOk(m.call)
        THEN Outcome(w, ToolResult("mcp",
                                   [i \in 1..Len(ids) |-> Change("calendar_block", ids[i], "deleted")],
                                   Null))
        ELSE IF Len(deleted) = 0 THEN Outcome(w, Failure)
        ELSE Outcome([w EXCEPT !.blocks = @ \ Range(deleted)],
                     ToolResult("local",
                                [k \in 1..Len(deleted) |->
                                    Change("calendar_block", deleted[k].id, "deleted")],
                                Undo("CALENDAR_CREATE_BLOCKS",
                                     [date |-> deleted[1].date,
                                      blocks |-> [k \in 1..Len(deleted) |->
                                                     [title |-> deleted[k].title]]])))

CalendarUpdateBlock(w, args, m) ==
    IF ById(w.blocks, args.block_id) = {} THEN Outcome(w, Failure)
    ELSE LET before == CHOOSE e \in ById(w.blocks, args.block_id) : TRUE
             block == Patch(before, args.updates, {"title"})
         IN  Outcome([w EXCEPT !.blocks = (@ \ {before}) \cup {block}],
                     ToolResult("local", <<Change("calendar_block", args.block_id, "updated")>>,
                                Undo("CALENDAR_UPDATE_BLOCK",
                                     [block_id |-> args.block_id,
                                      updates |-> Previous(before, args.updates)])))

\* a faulty variant: WORKFLOW_SAVE stores the enabled flag it is called with
WorkflowSaveAsAsked(w, args, m) ==
    LET workflow == [id |-> w.nextId, name |-> args.name,
                     enabled |-> IF "enabled" \in DOMAIN args THEN args.enabled ELSE FALSE,
                     updated_at |-> w.now]
    IN  Outcome([w EXCEPT !.workflows = @ \cup {workflow}, !.nextId = @ + 1],
                ToolResult("local", <<Change("workflow", workflow.id, "created")>>,
                           Undo("WORKFLOW_DELETE", [workflow_id |-> workflow.id])))

WorkflowSave(w, args, m) ==
    LET workflow == [id |-> w.nextId, name |-> args.name, enabled |-> FALSE,
                     updated_at |-> w.now]
    IN  Outcome([w EXCEPT !.workflows = @ \cup {workflow}, !.nextId = @ + 1],
                ToolResult("local", <<Change("workflow", workflow.id, "created")>>,
                           Undo("WORKFLOW_DELETE", [workflow_id |-> workflow.id])))

WorkflowEnable(w, args, m) ==
    IF ById(w.workflows, args.workflow_id) = {} THEN Outcome(w, Failure)
    ELSE LET before == CHOOSE e \in ById(w.workflows, args.workflow_id) : TRUE
             workflow == [before EXCEPT !.enabled = args.enabled, !.updated_at = w.now]
         IN  Outcome([w EXCEPT !.workflows = (@ \ {before}) \cup {workflow}],
                     ToolResult("local", <<Change("workflow", args.workflow_id, "updated")>>,
                                Undo("WORKFLOW_ENABLE",
                                     [workflow_id |-> args.workflow_id,
                                      enabled |-> ~args.enabled])))

WorkflowDelete(w, args, m) ==
    IF ById(w.workflows, args.workflow_id) = {} THEN Outcome(w, Failure)
    ELSE LET workflow == CHOOSE e \in ById(w.workflows, args.workflow_id) : TRUE
         IN  Outcome([w EXCEPT !.workflows = @ \ {workflow}],
                     ToolResult("local", <<Change("workflow", args.workflow_id, "deleted")>>,
                                Null))

\* the tools that write, by the collection they write to
MutatingTools ==
    [tasks |-> {"TASK_CREATE", "TASK_UPDATE", "TASK_DELETE"},
     notes |-> {"NOTE_CREATE", "NOTE_UPDATE", "NOTE_DELETE"},
     blocks |-> {"CALENDAR_CREATE_BLOCKS", "CALENDAR_DELETE_BLOCKS", "CALENDAR_UPDATE_BLOCK"},
     workflows |-> {"WORKFLOW_SAVE", "WORKFLOW_ENABLE", "WORKFLOW_DELETE"}]

\* tool.execute(**args) of the tool registered under the name
RunTool(tool, w, args, m) ==
    CASE tool = "TASK_CREATE" -> TaskCreate(w, args, m)
      [] tool = "TASK_UPDATE" -> TaskUpdate(w, args, m)
      [] tool = "TASK_DELETE" -> TaskDelete(w, args, m)
      [] tool = "NOTE_CREATE" -> NoteCreate(w, args, m)
      [] tool = "NOTE_UPDATE" -> NoteUpdate(w, args, m)
      [] tool = "NOTE_DELETE" -> NoteDelete(w, args, m)
      [] tool = "CALENDAR_CREATE_BLOCKS" -> CalendarCreateBlocks(w, args, m)
      [] tool = "CALENDAR_DELETE_BLOCKS" -> CalendarDeleteBlocks(w, args, m)
      [] tool = "CALENDAR_UPDATE_BLOCK" -> CalendarUpdateBlock(w, args, m)
      [] tool = "WORKFLOW_SAVE" -> WorkflowSave(w, args, m)
      [] tool = "WORKFLOW_ENABLE" -> WorkflowEnable(w, args, m)
      [] tool = "WORKFLOW_DELETE" -> WorkflowDelete(w, args, m)

\* the ids a caller may name: those stored and one that is not
IdsOf(coll) == {e.id : e \in coll} \cup {0}

\* arguments the tools are called with, over the ids `ids`
ArgsOf(tool, ids) ==
    CASE tool \in {"TASK_CREATE", "NOTE_CREATE"} -> {[title |-> "a"]}
      [] tool = "TASK_UPDATE" ->
            {[task_id |-> i, updates |-> u] :
                i \in ids, u \in {[title |-> "b"], [status |-> "done"], [owner |-> "x"]}}
      [] tool = "TASK_DELETE" -> {[task_id |-> i] : i \in ids}
      [] tool = "NOTE_UPDATE" -> {[note_id |-> i, updates |-> [title |-> "b"]] : i \in ids}
      [] tool = "NOTE_DELETE" -> {[note_id |-> i] : i \in ids}
      [] tool = "CALENDAR_CREATE_BLOCKS" ->
            {[date |-> d, blocks |-> b] :
                d \in {"d1", "d2"},
                b \in {<<>>, <<[title |-> "a"]>>, <<[title |-> "a"], [title |-> "b"]>>}}
      [] tool = "CALENDAR_DELETE_BLOCKS" ->
            {[block_ids |-> s] :
                s \in {<<>>} \cup {<<i>> : i \in ids} \cup {<<i, j>> : i \in ids, j \in ids}}
      [] tool = "CALENDAR_UPDATE_BLOCK" ->
            {[block_id |-> i, updates |-> [title |-> "b"]] : i \in ids}
      [] tool = "WORKFLOW_SAVE" -> {[name |-> "a"]}
      [] tool = "WORKFLOW_ENABLE" ->
            {[workflow_id |-> i, enabled |-> b] : i \in ids, b \in BOOLEAN}
      [] tool = "WORKFLOW_DELETE" -> {[workflow_id |-> i] : i \in ids}

\* what the MCP server answers to the calls of one tool: the workflow tools
\* and CALENDAR_UPDATE_BLOCK make none, the delete tools of tasks and notes
\* make two (get, then delete)
McpAnswers(tool) ==
    IF tool \in {"CALENDAR_UPDATE_BLOCK", "WORKFLOW_SAVE", "WORKFLOW_ENABLE", "WORKFLOW_DELETE"}
    THEN {[get |-> "down", call |-> "down"]}
    ELSE IF tool \in {"TASK_DELETE", "NOTE_DELETE"}
    THEN [get : McpOutcomes, call : McpOutcomes]
    ELSE [get : {"down"}, call : McpOutcomes]

\* the MCP server answered a call: the storage in use is not the in-memory one
McpUsed(m) == McpOk(m.get) \/ McpOk(m.call)

Collections(w) ==
    [tasks |-> w.tasks, notes |-> w.notes, blocks |-> w.blocks, workflows |-> w.workflows]

\* capture_tasks, lines 65-118, on a world: one TASK_CREATE per title, the
\* changes and the undo steps of the calls that succeeded
RECURSIVE CaptureAll(_, _, _)
CaptureAll(w, titles, m) ==
    IF titles = <<>> THEN [w |-> w, changes |-> <<>>, undo_steps |-> <<>>]
    ELSE LET head == CaptureAll(w, Take(titles, Len(titles) - 1), m)
             out == TaskCreate(head.w, [title |-> titles[Len(titles)]], m)
         IN  [w |-> out.w,
              changes |-> head.changes \o out.res.changes,
              undo_steps |-> Append(head.undo_steps, out.res.undo_step)]

\* the fields of the entities a collection may hold, as earlier calls of
\* its tools leave them
StoredFields(coll) ==
    CASE coll = "tasks" -> [title : {"a", "b"}, status : {"pending", "done"}, updated_at : {0}]
      [] coll = "notes" -> [title : {"a", "b"}, updated_at : {0}]
      [] coll = "blocks" -> [date : {"d1", "d2"}, title : {"a"}]
      [] coll = "workflows" -> [name : {"a"}, enabled : BOOLEAN, updated_at : {0}]

\* the worlds in which `coll` holds the entities 1..k, k <= MaxStored
Worlds(coll) ==
    {[World0 EXCEPT ![coll] = {[id |-> i] @@ f[i] : i \in 1..k}, !.nextId = k + 1] :
        <<k, f>> \in UNION {{<<n, g>> : g \in [1..n -> StoredFields(coll)]} : n \in 0..MaxStored}}

InitTools ==
    /\ Quiet
    /\ chains = DefaultChains
    /\ \E coll \in DOMAIN MutatingTools :
          \E w \in Worlds(coll) :
              probe = [w |-> w, coll |-> coll, pre |-> Collections(w), by |-> "none",
                       res |-> Failure, undo |-> <<>>, dispatched |-> 0, mcp |-> FALSE,
                       call |-> Null]

\* one tool of the collection under study is executed; the clock may have
\* advanced since the entities were stored
CallTool(tool, args, m, tick) ==
    /\ probe.by = "none"
    /\ tool \in MutatingTools[probe.coll]
    /\ args \in ArgsOf(tool, IdsOf(probe.w[probe.coll]))
    /\ LET w == [probe.w EXCEPT !.now = @ + tick]
           out == RunTool(tool, w, args, m)
       IN  probe' = [probe EXCEPT
                        !.w = out.w, !.by = tool, !.res = out.res,
                        !.undo = IF out.res.success /\ out.res.undo_step # Null
                                 THEN <<out.res.undo_step>> ELSE <<>>,
                        !.mcp = McpUsed(m)]
    /\ UNCHANGED <<chains, registered, tasks, notes, blocks, workflows, nextId, rows, req, mutations>>

\* capture_tasks runs alone on the entities of its intent
CaptureTasks(titles, m, tick) ==
    /\ probe.by = "none"
    /\ probe.coll = "tasks"
    /\ LET w == [probe.w EXCEPT !.now = @ + tick]
           out == CaptureAll(w, titles, m)
       IN  probe' = [probe EXCEPT
                        !.w = out.w, !.by = "capture_tasks",
                        !.res = ToolResult("local", out.changes, Null),
                        !.undo = out.undo_steps,
                        !.mcp = McpUsed(m)]
    /\ UNCHANGED <<chains, registered, tasks, notes, blocks, workflows, nextId, rows, req, mutations>>

\* the last undo step not yet dispatched is executed: the tool it names, with
\* its args
DispatchUndo(m, tick) ==
    /\ probe.undo # <<>>
    /\ m \in McpAnswers(probe.undo[Len(probe.undo)].tool_name)
    /\ LET step == probe.undo[Len(probe.undo)]
           w == [probe.w EXCEPT !.now = @ + tick]
           out == RunTool(step.tool_name, w, step.args, m)
       IN  probe' = [probe EXCEPT !.w = out.w,
                                  !.undo = Take(@, Len(@) - 1),
                                  !.dispatched = @ + 1,
                                  !.mcp = @ \/ McpUsed(m)]
    /\ UNCHANGED <<chains, registered, tasks, notes, blocks, workflows, nextId, rows, req, mutations>>

AllMutatingTools == UNION {MutatingTools[c] : c \in DOMAIN MutatingTools}

\* ToolRegistry.execute: the lookup, the confirmation gate, the call of the
\* tool and its `except Exception`.  `raises` tells that the tool body raises
\* on the answer of the MCP server, before it writes.
Execute(tool, args, skip_confirmation, m, tick, raises) ==
    /\ probe.by = "none"
    /\ IF tool \in AllMutatingTools
       THEN tool \in MutatingTools[probe.coll] /\ args \in ArgsOf(tool, IdsOf(probe.w[probe.coll]))
       ELSE raises = FALSE
    /\ LET gate == DispatchGate(tool, skip_confirmation)
           w == [probe.w EXCEPT !.now = @ + tick]
           out == RunTool(tool, w, args, m)
           ran == gate = "RUN"
           call == [tool_name |-> tool, skip_confirmation |-> skip_confirmation,
                    invoked |-> ran, raised |-> ran /\ raises,
                    status |-> IF ~ran THEN gate
                               ELSE IF ~raises /\ out.res.success THEN "OK" ELSE "FAILED",
                    error |-> IF gate = "FAILED" THEN "Tool not found"
                              ELSE IF ~ran THEN "none"
                              ELSE IF raises THEN "exception text"
                              ELSE IF out.res.success THEN "none" ELSE "result error",
                    result |-> IF ran /\ ~raises THEN out.res ELSE Null]
       IN  probe' = [probe EXCEPT !.by = "registry", !.call = call,
                                  !.w = IF ran /\ ~raises THEN out.w ELSE IF ran THEN w ELSE @,
                                  !.mcp = ran /\ McpUsed(m)]
    /\ UNCHANGED <<chains, registered, tasks, notes, blocks, workflows, nextId, rows, req, mutations>>

NextTools ==
    \/ \E tool \in AllMutatingTools :
          \E args \in ArgsOf(tool, 0..MaxStored), m \in McpAnswers(tool), tick \in {0, 1} :
              CallTool(tool, args, m, tick)
    \/ \E titles \in {<<"a">>, <<"a", "b">>}, m \in McpAnswers("TASK_CREATE"), tick \in {0, 1} :
          CaptureTasks(titles, m, tick)
    \/ \E m \in [get : McpOutcomes, call : McpOutcomes], tick \in {0, 1} :
          DispatchUndo(m, tick)
    \/ \E tool \in AllMutatingTools \cup {"NO_SUCH_TOOL"} :
          \E args \in (IF tool \in AllMutatingTools THEN ArgsOf(tool, 0..MaxStored)
                                                    ELSE {[title |-> "a"]}),
             skip_confirmation \in BOOLEAN, m \in McpAnswers(tool),
             tick \in {0, 1}, raises \in BOOLEAN :
              Execute(tool, args, skip_confirmation, m, tick, raises)

SpecTools == InitTools /\ [][NextTools]_vars

(***************************************************************************)
(* The validator alone: validate_intent applied to one mapping             *)
(***************************************************************************)
\* values of the key "type": names of the enum, a name outside it, null, and
\* the key missing
ValidateTypes ==
    {"CAPTURE_TASKS", "PLAN_DAY", "PROCESS_MEETING_NOTES", "UNKNOWN",
     "BOGUS", "<null>", "<absent>"}

\* values of the key "confidence": numbers from -0.1 to 1.1 in tenths, an
\* integer float() cannot hold, "0.5" and "high", true and false, an array,
\* null, and the key missing
ValidateConfidences ==
    {Conf("num", v) : v \in (-1)..11}
    \cup {Conf("huge", 11), Conf("numstr", 5), Conf("text", 0), Conf("bool", 0),
          Conf("bool", 10), Conf("list", 0), Conf("null", 0), Conf("absent", 0)}

ValidateParameters == {"<absent>", "empty", "date_bad", "not_a_dict"}

ValidateEntities ==
    {Entities("<absent>", <<>>), Entities("list", <<>>), Entities("list", <<TodoLine>>),
     Entities("not_a_list", <<>>), Entities("list_with_non_string", <<>>)}

ValidateMappings ==
    {Mapping(t, c, p, e) : t \in ValidateTypes, c \in ValidateConfidences,
                           p \in ValidateParameters, e \in ValidateEntities}

InitValidate ==
    /\ Quiet
    /\ chains = DefaultChains
    /\ \E data \in ValidateMappings :
          probe = [data |-> data, by |-> "none", res |-> Null]

\* validator.validate_intent(data)
Validate ==
    /\ probe.by = "none"
    /\ probe' = [probe EXCEPT !.by = "validate_intent",
                              !.res = ValidateIntent(probe.data)]
    /\ UNCHANGED <<chains, registered, tasks, notes, blocks, workflows, nextId, rows, req, mutations>>

NextValidate == Validate

SpecValidate == InitValidate /\ [][NextValidate]_vars

(***************************************************************************)
(* The normalizer alone                                                    *)
(*                                                                         *)
(* A text is a sequence of tokens: the JSON punctuation "{" "}" "[" "]"    *)
(* ",", a quoted key with its colon "k:", an unquoted key with its colon   *)
(* "u:", a scalar "1", white space "ws", a markdown fence "fence" and      *)
(* prose "txt".  No token holds a single quote, so the third repair of     *)
(* _apply_repairs never applies.                                           *)
(***************************************************************************)
MaxText == 4

Tokens == {"{", "}", "[", "]", ",", "k:", "u:", "1", "ws", "fence", "txt"}

Texts == UNION {[1..n -> Tokens] : n \in 0..MaxText}

\* the indices of a text that hold one of the tokens
Where(text, toks) == {i \in 1..Len(text) : text[i] \in toks}

Min(S) == CHOOSE i \in S : \A j \in S : i <= j

Max(S) == CHOOSE i \in S : \A j \in S : j <= i

\* str.strip()
Strip(text) ==
    LET solid == Where(text, Tokens \ {"ws"})
    IN  IF solid = {} THEN <<>> ELSE SubSeq(text, Min(solid), Max(solid))

NoParse == [ok |-> FALSE, rest |-> <<>>]

RECURSIVE ParseValue(_), ParseMembers(_), ParseElements(_)

\* the JSON decoder on a text without white space: one value off the head
ParseValue(t) ==
    IF t = <<>> THEN NoParse
    ELSE IF Head(t) = "1" THEN [ok |-> TRUE, rest |-> Tail(t)]
    ELSE IF Head(t) = "{"
    THEN IF Len(t) >= 2 /\ t[2] = "}" THEN [ok |-> TRUE, rest |-> SubSeq(t, 3, Len(t))]
         ELSE ParseMembers(Tail(t))
    ELSE IF Head(t) = "["
    THEN IF Len(t) >= 2 /\ t[2] = "]" THEN [ok |-> TRUE, rest |-> SubSeq(t, 3, Len(t))]
         ELSE ParseElements(Tail(t))
    ELSE NoParse

\* the members of an object after "{" or ",", up to its "}"
ParseMembers(t) ==
    IF t = <<>> \/ Head(t) # "k:" THEN NoParse
    ELSE LET v == ParseValue(Tail(t))
         IN  IF ~v.ok \/ v.rest = <<>> THEN NoParse
             ELSE IF Head(v.rest) = "}" THEN [ok |-> TRUE, rest |-> Tail(v.rest)]
             ELSE IF Head(v.rest) = "," THEN ParseMembers(Tail(v.rest))
             ELSE NoParse

\* the elements of an array after "[" or ",", up to its "]"
ParseElements(t) ==
    LET v == ParseValue(t)
    IN  IF ~v.ok \/ v.rest = <<>> THEN NoParse
        ELSE IF Head(v.rest) = "]" THEN [ok |-> TRUE, rest |-> Tail(v.rest)]
        ELSE IF Head(v.rest) = "," THEN ParseElements(Tail(v.rest))
        ELSE NoParse

\* json.loads: the value is the text without its white space; ok = FALSE
\* stands for JSONDecodeError
JsonLoads(text) ==
    LET t == SelectSeq(text, LAMBDA tok : tok # "ws")
        v == ParseValue(t)
    IN  IF v.ok /\ v.rest = <<>>
        THEN [ok |-> TRUE, value |-> t,
              kind |-> IF Head(t) = "{" THEN "dict" ELSE IF Head(t) = "[" THEN "list" ELSE "scalar"]
        ELSE [ok |-> FALSE, value |-> <<>>, kind |-> "none"]

NormalizerResult(success, data, repairs_applied) ==
    [success |-> success, data |-> data, repairs_applied |-> repairs_applied]

\* a faulty variant: an object is wrapped like an array
TryParseWrapsAll(text) ==
    LET j == JsonLoads(Strip(text))
    IN  IF j.ok /\ j.kind \in {"dict", "list"}
        THEN NormalizerResult(TRUE, [items |-> j.value], Null)
        ELSE NormalizerResult(FALSE, Null, Null)

\* _try_parse: data is [dict |-> value] for an object and [items |-> value]
\* for an array
TryParse(text) ==
    LET j == JsonLoads(Strip(text))
    IN  IF j.ok /\ j.kind = "dict" THEN NormalizerResult(TRUE, [dict |-> j.value], Null)
        ELSE IF j.ok /\ j.kind = "list" THEN NormalizerResult(TRUE, [items |-> j.value], Null)
        ELSE NormalizerResult(FALSE, Null, Null)

\* _extract_from_markdown: the first fenced block whose stripped content
\* starts with "{" or "["; <<>> stands for None
ExtractFromMarkdown(text) ==
    LET fences == Where(text, {"fence"})
        nth(k) == CHOOSE i \in fences : Cardinality({j \in fences : j < i}) = k - 1
        block(k) == Strip(SubSeq(text, nth(2 * k - 1) + 1, nth(2 * k) - 1))
        hits == {k \in 1..(Cardinality(fences) \div 2) :
                    block(k) # <<>> /\ Head(block(k)) \in {"{", "["}}
    IN  IF hits = {} THEN <<>> ELSE block(Min(hits))

\* _find_json_structure: from the first "{" to the last "}", else from the
\* first "[" to the last "]"; <<>> stands for None
FindJsonStructure(text) ==
    LET span(open, close) ==
            LET o == Where(text, {open})
                c == Where(text, {close})
            IN  IF o # {} /\ c # {} /\ Min(o) < Max(c)
                THEN SubSeq(text, Min(o), Max(c)) ELSE <<>>
    IN  IF span("{", "}") # <<>> THEN span("{", "}") ELSE span("[", "]")

\* the token before (d = -1) or after (d = 1) index i, white space skipped
RECURSIVE Solid(_, _, _)
Solid(text, i, d) ==
    IF i + d < 1 \/ i + d > Len(text) THEN "none"
    ELSE IF text[i + d] = "ws" THEN Solid(text, i + d, d)
    ELSE text[i + d]

\* _apply_repairs: commas before "}" or "]" removed, then unquoted keys
\* after "{" or "," quoted
ApplyRepairs(text) ==
    LET trailing == {i \in Where(text, {","}) : Solid(text, i, 1) \in {"}", "]"}}
        kept == SelectSeq([i \in 1..Len(text) |-> IF i \in trailing THEN "" ELSE text[i]],
                          LAMBDA tok : tok # "")
        unquoted == {i \in Where(kept, {"u:"}) : Solid(kept, i, -1) \in {"{", ","}}
        quoted == [i \in 1..Len(kept) |-> IF i \in unquoted THEN "k:" ELSE kept[i]]
    IN  [text |-> quoted,
         repairs |-> (IF trailing # {} THEN <<"removed_trailing_commas">> ELSE <<>>)
                     \o (IF unquoted # {} THEN <<"quoted_keys">> ELSE <<>>)]

\* normalize
Normalize(raw_output) ==
    LET direct == TryParse(raw_output)
        fenced == ExtractFromMarkdown(raw_output)
        r2 == IF fenced # <<>> THEN <<"extracted_from_markdown">> ELSE <<>>
        raw2 == IF fenced # <<>> THEN fenced ELSE raw_output
        found == FindJsonStructure(raw2)
        step3 == found # <<>> /\ found # raw2
        r3 == IF step3 THEN Append(r2, "extracted_json_structure") ELSE r2
        raw3 == IF step3 THEN found ELSE raw2
        fixed == ApplyRepairs(raw3)
        r4 == r3 \o fixed.repairs
    IN  IF direct.success THEN direct
        ELSE IF fenced # <<>> /\ TryParse(fenced).success
        THEN [TryParse(fenced) EXCEPT !.repairs_applied = r2]
        ELSE IF step3 /\ TryParse(found).success
        THEN [TryParse(found) EXCEPT !.repairs_applied = r3]
        ELSE IF TryParse(fixed.text).success
        THEN [TryParse(fixed.text) EXCEPT !.repairs_applied = r4]
        ELSE NormalizerResult(FALSE, Null, r4)

\* the longest body of a fenced block of the texts with two blocks
MaxBody == 2

BodyTokens == {"{", "}", "[", "k:", "1"}

\* model output with two fenced code blocks one after the other
TwoBlockTexts ==
    LET bodies == UNION {[1..n -> BodyTokens] : n \in 1..MaxBody}
    IN  {<<"fence">> \o b1 \o <<"fence", "fence">> \o b2 \o <<"fence">> :
            b1 \in bodies, b2 \in bodies}

\* the stripped bodies of the fenced blocks of a text, in order: the matches
\* of MARKDOWN_JSON_PATTERN
FencedBodies(text) ==
    LET fences == Where(text, {"fence"})
        nth(k) == CHOOSE i \in fences : Cardinality({j \in fences : j < i}) = k - 1
    IN  [k \in 1..(Cardinality(fences) \div 2) |->
            Strip(SubSeq(text, nth(2 * k - 1) + 1, nth(2 * k) - 1))]

InitNormalize ==
    /\ Quiet
    /\ chains = DefaultChains
    /\ \E text \in Texts \cup TwoBlockTexts :
          probe = [text |-> text, calls |-> 0, first |-> Null, last |-> Null]

\* normalizer.normalize(text), the first call and a second one
NormalizeCall ==
    /\ probe.calls < 2
    /\ probe' = [probe EXCEPT !.calls = @ + 1,
                              !.first = IF probe.calls = 0 THEN Normalize(probe.text) ELSE @,
                              !.last = Normalize(probe.text)]
    /\ UNCHANGED <<chains, registered, tasks, notes, blocks, workflows, nextId, rows, req, mutations>>

NextNormalize == NormalizeCall

SpecNormalize == InitNormalize /\ [][NextNormalize]_vars

(***************************************************************************)
(* The receipts store alone                                                *)
(*                                                                         *)
(* The table is the sequence of its rows in rowid order, which is the      *)
(* order of their INSERTs.  created_at is the second of the database clock *)
(* at the INSERT (DEFAULT CURRENT_TIMESTAMP).                              *)
(***************************************************************************)
MaxReceipts == 2

MaxSecond == 1

ReceiptIds == 1..MaxReceipts

StoreStatuses == {"SUCCESS", "FAILED"}

StoreReceipts == [receipt_id : ReceiptIds, status : StoreStatuses]

\* str(receipt.receipt_id)
UuidStr(id) == <<"uuid", id>>

\* receipt.model_dump_json()
ModelDumpJson(receipt) ==
    [receipt_id |-> UuidStr(receipt.receipt_id), status |-> <<"str", receipt.status>>]

\* Receipt.model_validate_json(row["receipt_json"])
ModelValidateJson(json) ==
    [receipt_id |-> json.receipt_id[2], status |-> json.status[2]]

\* the positions of the rows with a receipt_id
Stored(table, key) == {i \in 1..Len(table) : table[i].receipt_id = key}

InitStore ==
    /\ Quiet
    /\ chains = DefaultChains
    /\ probe = [table |-> <<>>, now |-> 0, last |-> [id \in ReceiptIds |-> Null],
                out |-> [op |-> "none"]]

\* a faulty variant: a second INSERT of a receipt_id replaces the row
CreateReplaces(receipt, tick) ==
    /\ probe.now + tick <= MaxSecond
    /\ LET key == UuidStr(receipt.receipt_id)
           row == [receipt_id |-> key, created_at |-> probe.now + tick,
                   status |-> receipt.status, receipt_json |-> ModelDumpJson(receipt)]
           others == SelectSeq(probe.table, LAMBDA r : r.receipt_id # key)
       IN  probe' = [probe EXCEPT
                       !.now = @ + tick,
                       !.table = Append(others, row),
                       !.last[receipt.receipt_id] = receipt,
                       !.out = [op |-> "create", raised |-> FALSE,
                                known |-> Stored(probe.table, key) # {},
                                before |-> probe.table]]
    /\ UNCHANGED <<chains, registered, tasks, notes, blocks, workflows, nextId, rows, req, mutations>>

\* create; raised = TRUE when the INSERT fails on the UNIQUE receipt_id
Create(receipt, tick) ==
    /\ probe.now + tick <= MaxSecond
    /\ LET key == UuidStr(receipt.receipt_id)
           row == [receipt_id |-> key, created_at |-> probe.now + tick,
                   status |-> receipt.status, receipt_json |-> ModelDumpJson(receipt)]
           known == Stored(probe.table, key) # {}
       IN  probe' = [probe EXCEPT
                       !.now = @ + tick,
                       !.table = IF known THEN @ ELSE Append(@, row),
                       !.last[receipt.receipt_id] = IF known THEN @ ELSE receipt,
                       !.out = [op |-> "create", raised |-> known, known |-> known,
                                before |-> probe.table]]
    /\ UNCHANGED <<chains, registered, tasks, notes, blocks, workflows, nextId, rows, req, mutations>>

\* update
Update(receipt) ==
    /\ LET key == UuidStr(receipt.receipt_id)
       IN  probe' = [probe EXCEPT
                       !.table = [i \in 1..Len(@) |->
                                    IF @[i].receipt_id = key
                                    THEN [@[i] EXCEPT !.status = receipt.status,
                                                      !.receipt_json = ModelDumpJson(receipt)]
                                    ELSE @[i]],
                       !.last[receipt.receipt_id] =
                           IF Stored(probe.table, key) # {} THEN receipt ELSE @,
                       !.out = [op |-> "update"]]
    /\ UNCHANGED <<chains, registered, tasks, notes, blocks, workflows, nextId, rows, req, mutations>>

\* delete
Delete(id) ==
    /\ probe' = [probe EXCEPT
                   !.table = SelectSeq(@, LAMBDA r : r.receipt_id # UuidStr(id)),
                   !.last[id] = Null,
                   !.out = [op |-> "delete", result |-> Stored(probe.table, UuidStr(id)) # {}]]
    /\ UNCHANGED <<chains, registered, tasks, notes, blocks, workflows, nextId, rows, req, mutations>>

\* the last call was a query.  A query leaves the table as it is, so a query
\* after a query gives what it gives after the write before them: the
\* queries below are taken after a write only.
Queried == probe.out.op \in {"get", "list", "count"}

\* get
Get(id) ==
    /\ ~Queried
    /\ LET hit == Stored(probe.table, UuidStr(id))
       IN  probe' = [probe EXCEPT
                       !.out = [op |-> "get", id |-> id,
                                result |-> IF hit = {} THEN Null
                                           ELSE ModelValidateJson(
                                                  probe.table[CHOOSE i \in hit : TRUE].receipt_json)]]
    /\ UNCHANGED <<chains, registered, tasks, notes, blocks, workflows, nextId, rows, req, mutations>>

\* list; status "none" is no filter.  ORDER BY created_at DESC leaves the
\* order of rows of one second open: ties is the order the query plan gives
\* them.  A negative LIMIT is no limit.
List(limit, offset, status, ties) ==
    /\ ~Queried
    /\ LET table == probe.table
           matching == {i \in 1..Len(table) : status = "none" \/ table[i].status = status}
           Before(i, j) ==
               \/ table[i].created_at > table[j].created_at
               \/ /\ table[i].created_at = table[j].created_at
                  /\ IF ties = "rowid_asc" THEN i < j ELSE i > j
           rank(i) == 1 + Cardinality({j \in matching : Before(j, i)})
           ordered == [k \in 1..Cardinality(matching) |->
                          CHOOSE i \in matching : rank(i) = k]
           upto == IF limit < 0 \/ offset + limit > Len(ordered)
                   THEN Len(ordered) ELSE offset + limit
           page == SubSeq(ordered, offset + 1, upto)
       IN  probe' = [probe EXCEPT
                       !.out = [op |-> "list", limit |-> limit, status |-> status,
                                picked |-> page,
                                result |-> [k \in 1..Len(page) |->
                                              ModelValidateJson(table[page[k]].receipt_json)]]]
    /\ UNCHANGED <<chains, registered, tasks, notes, blocks, workflows, nextId, rows, req, mutations>>

\* count
Count(status) ==
    /\ ~Queried
    /\ probe' = [probe EXCEPT
                   !.out = [op |-> "count", status |-> status,
                            result |-> Cardinality({i \in 1..Len(probe.table) :
                                          status = "none" \/ probe.table[i].status = status})]]
    /\ UNCHANGED <<chains, registered, tasks, notes, blocks, workflows, nextId, rows, req, mutations>>

NextStore ==
    \/ \E receipt \in StoreReceipts, tick \in {0, 1} : Create(receipt, tick)
    \/ \E receipt \in StoreReceipts : Update(receipt)
    \/ \E id \in ReceiptIds : Delete(id)
    \/ \E id \in ReceiptIds : Get(id)
    \/ \E limit \in (-1)..MaxReceipts, offset \in {0, 1},
          status \in StoreStatuses \cup {"none"}, ties \in {"rowid_asc", "rowid_desc"} :
          List(limit, offset, status, ties)
    \/ \E status \in StoreStatuses \cup {"none"} : Count(status)

SpecStore == InitStore /\ [][NextStore]_vars

(***************************************************************************)
(* The provider registry alone                                             *)
(*                                                                         *)
(* Adapters are numbered in the order of their construction; 0 stands for  *)
(* no adapter.  A ProviderHealth carries the number of the adapter whose   *)
(* health_check produced it (register's placeholder: the adapter it        *)
(* registers).                                                             *)
(***************************************************************************)
\* adapters constructed in one run
MaxAdapters == 3

ProviderNames == {"ollama", "openai"}

HealthStatuses == {"HEALTHY", "DEGRADED", "UNHEALTHY", "UNKNOWN"}

\* check_health calls that can be in flight together
HealthCalls == {1, 2}

InitProviders ==
    /\ Quiet
    /\ chains = DefaultChains
    /\ probe = [providers |-> [n \in ProviderNames |-> 0],
                health_cache |-> [n \in ProviderNames |-> Null],
                made |-> 0,
                checks |-> [c \in HealthCalls |-> Null]]

\* register(provider) with a newly constructed adapter named `name`
ProviderRegister(name) ==
    /\ probe.made < MaxAdapters
    /\ probe' = [probe EXCEPT
                    !.made = @ + 1,
                    !.providers[name] = probe.made + 1,
                    !.health_cache[name] = [status |-> "UNKNOWN", by |-> probe.made + 1]]
    /\ UNCHANGED <<chains, registered, tasks, notes, blocks, workflows, nextId, rows, req, mutations>>

\* unregister(name) of a registered name (of another name it returns False)
ProviderUnregister(name) ==
    /\ probe.providers[name] # 0
    /\ probe' = [probe EXCEPT !.providers[name] = 0, !.health_cache[name] = Null]
    /\ UNCHANGED <<chains, registered, tasks, notes, blocks, workflows, nextId, rows, req, mutations>>

\* check_health(name) up to `await provider.health_check()`; for a name that
\* is not registered it returns at once and nothing changes
CheckHealthCall(c, name) ==
    /\ probe.checks[c] = Null
    /\ probe.providers[name] # 0
    /\ probe' = [probe EXCEPT !.checks[c] = [name |-> name, provider |-> probe.providers[name]]]
    /\ UNCHANGED <<chains, registered, tasks, notes, blocks, workflows, nextId, rows, req, mutations>>

\* the probe returns: check_health stores the health under the name
CheckHealthReturn(c, status) ==
    /\ probe.checks[c] # Null
    /\ probe' = [probe EXCEPT
                    !.health_cache[probe.checks[c].name] =
                        [status |-> status, by |-> probe.checks[c].provider],
                    !.checks[c] = Null]
    /\ UNCHANGED <<chains, registered, tasks, notes, blocks, workflows, nextId, rows, req, mutations>>

NextProviders ==
    \/ \E name \in ProviderNames : ProviderRegister(name)
    \/ \E name \in ProviderNames : ProviderUnregister(name)
    \/ \E c \in HealthCalls, name \in ProviderNames : CheckHealthCall(c, name)
    \/ \E c \in HealthCalls, status \in HealthStatuses : CheckHealthReturn(c, status)

SpecProviders == InitProviders /\ [][NextProviders]_vars

(***************************************************************************)
(* The skill registry alone                                                *)
(*                                                                         *)
(* A skill is an object with a name and the intent types it handles; two   *)
(* objects are the same skill only when they are the same instance.        *)
(***************************************************************************)
SkillInstances == {1, 2}

RegistryNames == {"capture_tasks", "plan_day"}

RegistryTypes == {"CAPTURE_TASKS", "PLAN_DAY"}

\* the Skill objects handed to register: one for every instance number, name
\* and list of handled intent types
SkillObjects ==
    {[instance |-> i, name |-> n, intent_types |-> ts] :
        i \in SkillInstances, n \in RegistryNames, ts \in SUBSET RegistryTypes}

InitSkills ==
    /\ Quiet
    /\ chains = DefaultChains
    /\ probe = [skills |-> [n \in RegistryNames |-> Null],
                intent_map |-> [t \in RegistryTypes |-> Null],
                removed |-> Null]

\* register(skill)
SkillRegister(skill) ==
    /\ probe' = [probe EXCEPT
                    !.skills[skill.name] = skill,
                    !.intent_map = [t \in RegistryTypes |->
                                       IF t \in skill.intent_types THEN skill ELSE @[t]],
                    !.removed = Null]
    /\ UNCHANGED <<chains, registered, tasks, notes, blocks, workflows, nextId, rows, req, mutations>>

\* unregister(name); removed keeps the skill it popped, Null when it
\* returned False
SkillUnregister(name) ==
    /\ LET skill == probe.skills[name]
       IN  probe' = [probe EXCEPT
                       !.skills[name] = Null,
                       !.intent_map = [t \in RegistryTypes |->
                                          IF /\ skill # Null
                                             /\ t \in skill.intent_types
                                             /\ @[t] = skill
                                          THEN Null ELSE @[t]],
                       !.removed = skill]
    /\ UNCHANGED <<chains, registered, tasks, notes, blocks, workflows, nextId, rows, req, mutations>>

\* get_for_intent(intent) for an intent of type t
GetForIntent(t) == probe.intent_map[t]

NextSkills ==
    \/ \E skill \in SkillObjects : SkillRegister(skill)
    \/ \E name \in RegistryNames : SkillUnregister(name)

SpecSkills == InitSkills /\ [][NextSkills]_vars

(***************************************************************************)
(* The workflows under execute and under the tool registry                 *)
(*                                                                         *)
(* What an execute does to the storage is what its skill does: the tool    *)
(* dispatches of the four skills that call tools, and the store of         *)
(* build_workflow.  Beside them a caller of the registry dispatches the    *)
(* workflow tools.  `enabled_by` keeps the ids whose flag a WORKFLOW_ENABLE *)
(* that the registry ran with skip_confirmation set to true.               *)
(***************************************************************************)
\* entities stored in one run
MaxWorkflowIds == 3

\* tools.execute(name, ..., skip_confirmation=...) in the shipped skills
SkillDispatches ==
    [capture_tasks |-> {<<"TASK_CREATE", TRUE>>},
     plan_day |-> {<<"CALENDAR_GET_DAY", TRUE>>, <<"TASK_GET", TRUE>>, <<"TASK_LIST", TRUE>>,
                   <<"CALENDAR_CREATE_BLOCKS", FALSE>>},
     process_meeting_notes |-> {<<"NOTE_CREATE", TRUE>>, <<"TASK_CREATE", TRUE>>},
     search_summarize |-> {<<"NOTE_SEARCH", TRUE>>, <<"TASK_LIST", TRUE>>},
     build_workflow |-> {}]

\* the arguments the skills give to the tools that write
SkillArgs(tool) ==
    IF tool = "CALENDAR_CREATE_BLOCKS" THEN [date |-> "d1", blocks |-> <<[title |-> "a"]>>]
    ELSE [title |-> "a"]

\* the arguments a caller of the registry gives to the workflow tools
WorkflowArgs(tool, ids) ==
    CASE tool = "WORKFLOW_SAVE" -> {[name |-> "a", enabled |-> b] : b \in BOOLEAN}
      [] tool = "WORKFLOW_ENABLE" ->
            {[workflow_id |-> i, enabled |-> b] : i \in ids, b \in BOOLEAN}
      [] tool = "WORKFLOW_DELETE" -> {[workflow_id |-> i] : i \in ids}

NoMcp == [get |-> "down", call |-> "down"]

\* the ids of the workflows of world w2 that are enabled and were not in w1
NewlyEnabled(w1, w2) ==
    {e.id : e \in {x \in w2.workflows : x.enabled}}
        \ {e.id : e \in {x \in w1.workflows : x.enabled}}

InitWorkflows ==
    /\ Quiet
    /\ chains = DefaultChains
    /\ probe = [w |-> World0, enabled_by |-> {},
                last |-> [op |-> "none", stored |-> 0, newly |-> {}]]

\* BuildWorkflowSkill.execute inside an execute: the workflow is written to
\* _workflows
BuildWorkflowStores ==
    /\ probe.w.nextId <= MaxWorkflowIds
    /\ LET workflow == [id |-> probe.w.nextId, name |-> "a", enabled |-> FALSE,
                        updated_at |-> probe.w.now]
           w2 == [probe.w EXCEPT !.workflows = @ \cup {workflow}, !.nextId = @ + 1]
       IN  probe' = [probe EXCEPT
                       !.w = w2,
                       !.last = [op |-> "build_workflow", stored |-> workflow.id,
                                 newly |-> NewlyEnabled(probe.w, w2)]]
    /\ UNCHANGED <<chains, registered, tasks, notes, blocks, workflows, nextId, rows, req, mutations>>

\* one tools.execute of a skill inside an execute
SkillCall(skill, tool, skip_confirmation) ==
    /\ <<tool, skip_confirmation>> \in SkillDispatches[skill]
    /\ probe.w.nextId <= MaxWorkflowIds
    /\ LET ran == /\ DispatchGate(tool, skip_confirmation) = "RUN"
                  /\ tool \in AllMutatingTools
           w2 == IF ran THEN RunTool(tool, probe.w, SkillArgs(tool), NoMcp).w ELSE probe.w
       IN  probe' = [probe EXCEPT
                       !.w = w2,
                       !.last = [op |-> "skill", skill |-> skill, tool |-> tool, ran |-> ran,
                                 stored |-> 0, newly |-> NewlyEnabled(probe.w, w2)]]
    /\ UNCHANGED <<chains, registered, tasks, notes, blocks, workflows, nextId, rows, req, mutations>>

\* ToolRegistry.execute of a workflow tool by a caller outside the skills
RegistryDispatch(tool, args, skip_confirmation) ==
    /\ args \in WorkflowArgs(tool, IdsOf(probe.w.workflows))
    /\ probe.w.nextId <= MaxWorkflowIds
    /\ LET ran == DispatchGate(tool, skip_confirmation) = "RUN"
           out == RunTool(tool, probe.w, args, NoMcp)
           w2 == IF ran THEN out.w ELSE probe.w
       IN  probe' = [probe EXCEPT
                       !.w = w2,
                       !.enabled_by =
                           IF /\ ran /\ tool = "WORKFLOW_ENABLE" /\ skip_confirmation
                              /\ out.res.success /\ args.enabled
                           THEN @ \cup {args.workflow_id} ELSE @,
                       !.last = [op |-> "dispatch", tool |-> tool, args |-> args,
                                 skip_confirmation |-> skip_confirmation, ran |-> ran,
                                 stored |-> IF ran /\ tool = "WORKFLOW_SAVE"
                                            THEN probe.w.nextId ELSE 0,
                                 newly |-> NewlyEnabled(probe.w, w2)]]
    /\ UNCHANGED <<chains, registered, tasks, notes, blocks, workflows, nextId, rows, req, mutations>>

WorkflowTools == {"WORKFLOW_SAVE", "WORKFLOW_ENABLE", "WORKFLOW_DELETE"}

NextWorkflows ==
    \/ BuildWorkflowStores
    \/ \E skill \in DOMAIN SkillDispatches, tool \in RegisteredTools,
          skip_confirmation \in BOOLEAN : SkillCall(skill, tool, skip_confirmation)
    \/ \E tool \in WorkflowTools :
          \E args \in WorkflowArgs(tool, 0..MaxWorkflowIds), skip_confirmation \in BOOLEAN :
              RegistryDispatch(tool, args, skip_confirmation)

SpecWorkflows == InitWorkflows /\ [][NextWorkflows]_vars

(***************************************************************************)
(* Properties                                                              *)
(***************************************************************************)
\* execute has returned its receipt to execute_v1
Returned(st) == st.pc \in {"awaiting_store", "responded", "error"}

\* the rows of the receipts table stored under a receipt id
RowsFor(id) == {i \in 1..Len(rows) : rows[i].receipt_id = id}

\* the skill of the request ran to its return statement
SkillReturned(st) == Returned(st) /\ st.result # Null /\ ~st.raised

\* C1: in every receipt execute returns, no (provider, model) pair appears
\* more than 2 times in models_attempted, and models_attempted has at most
\* 6 entries, whatever the outcomes of the attempts were.
C1_AttemptsBounded ==
    \A r \in Reqs : Returned(req[r]) =>
        LET ma == req[r].receipt.models_attempted
        IN  /\ Len(ma) <= 6
            /\ \A p \in DistinctPairs(ma) : CountPair(ma, p) <= 2

\* a returned receipt with six attempts, among them an unparseable reply, an
\* invalid intent and a rate limit
C1_SixAttempts ==
    \E r \in Reqs :
        /\ Returned(req[r])
        /\ Len(req[r].receipt.models_attempted) = 6
        /\ {"INVALID_JSON", "VALIDATION_ERROR", "RATE_LIMIT"} \subseteq
               {a.fallback_trigger : a \in Range(req[r].receipt.models_attempted)}

\* C2: in every receipt execute returns, models_attempted holds at most 3
\* distinct (provider, model) pairs, whatever chain is configured.
C2_DistinctModelsBounded ==
    \A r \in Reqs : Returned(req[r]) =>
        Cardinality(DistinctPairs(req[r].receipt.models_attempted)) <= 3

\* a returned receipt with three distinct pairs, of a request during which the
\* chain of its profile was replaced by a chain of four models: a model of the
\* old chain and one of the new chain were both attempted
C2_ThreeModelsAcrossChains ==
    \E r \in Reqs :
        /\ Returned(req[r])
        /\ Cardinality(DistinctPairs(req[r].receipt.models_attempted)) = 3
        /\ Len(chains[req[r].profile]) = 4
        /\ OpenaiMini \in DistinctPairs(req[r].receipt.models_attempted)
        /\ GroqLlama \in DistinctPairs(req[r].receipt.models_attempted)

\* C3: execute never raises to its caller; when the classification or the
\* skill raises, execute returns the receipt with status FAILED and at least
\* one error.
C3_ExecuteNeverRaises ==
    \A r \in Reqs :
        /\ ~(req[r].pc = "cancelled" /\ req[r].at \in {"awaiting_model", "awaiting_tool"})
        /\ req[r].raised =>
              /\ Returned(req[r])
              /\ req[r].receipt.status = "FAILED"
              /\ Len(req[r].receipt.errors) >= 1

\* C4: every /v1/execute request that ran to its end without being cancelled
\* has exactly one row stored under its receipt id and got its receipt as the
\* response, failure of the store write included.
C4_OneRowAndReceipt ==
    \A r \in Reqs : req[r].pc \in {"responded", "error"} =>
        /\ Cardinality(RowsFor(req[r].receipt.receipt_id)) = 1
        /\ req[r].pc = "responded"

\* C5: every mutation applied to a collection during an execute call is
\* listed as a Change in the receipt the call returns, also when the skill
\* raised after some of its tool calls had run.
C5_MutationsListed ==
    \A r \in Reqs : Returned(req[r]) =>
        Range(mutations[r]) \subseteq Range(req[r].receipt.changes)

\* C6: a request cancelled while an adapter call, a tool call or the store
\* write is in flight has its receipt finalized with status FAILED and the
\* error "cancelled", and that receipt is stored.
C6_CancelledFinalized ==
    \A r \in Reqs : req[r].pc = "cancelled" =>
        /\ req[r].receipt.status = "FAILED"
        /\ "cancelled" \in Range(req[r].receipt.errors)
        /\ RowsFor(req[r].receipt.receipt_id) # {}

\* C7: every receipt execute returns with status SUCCESS has an intent_final
\* that is not null, whose type is in the closed set of intent types and whose
\* confidence lies in [0, 1] (0..10 tenths).
C7_SuccessHasIntent ==
    \A r \in Reqs : (Returned(req[r]) /\ req[r].receipt.status = "SUCCESS") =>
        /\ IntentFinal(req[r]) # Null
        /\ IntentFinal(req[r]).type \in IntentTypes
        /\ 0 <= IntentFinal(req[r]).confidence
        /\ IntentFinal(req[r]).confidence <= 10

\* a SUCCESS receipt whose intent was classified with confidence 1.0 on a
\* second or later attempt
C7_SuccessAfterFallback ==
    \E r \in Reqs :
        /\ Returned(req[r])
        /\ req[r].receipt.status = "SUCCESS"
        /\ req[r].receipt.intent_set
        /\ req[r].intent.confidence = 10
        /\ Len(req[r].receipt.models_attempted) > 1

\* C8: every receipt execute returns with status FAILED has intent_final =
\* null or has only tool calls whose status is FAILED or SKIPPED.
C8_FailedHasNoEffectiveCall ==
    \A r \in Reqs : (Returned(req[r]) /\ req[r].receipt.status = "FAILED") =>
        \/ IntentFinal(req[r]) = Null
        \/ \A c \in Range(req[r].receipt.tool_calls) : c.status \in {"FAILED", "SKIPPED"}

\* a FAILED receipt with an intent_final, returned after the skill raised
\* when one of its tool calls had already succeeded
C8_FailedAfterToolRan ==
    \E r \in Reqs :
        /\ Returned(req[r])
        /\ req[r].receipt.status = "FAILED"
        /\ req[r].receipt.intent_set
        /\ req[r].raised
        /\ \E c \in Range(req[r].result.tool_calls) : c.status = "OK"

\* C9: after a skill has run the receipt status is SUCCESS when the skill
\* reports success; otherwise PARTIAL when at least one of its tool calls has
\* status OK, and FAILED when none has.
C9_StatusRule ==
    \A r \in Reqs : SkillReturned(req[r]) =>
        req[r].receipt.status =
            IF req[r].result.success THEN "SUCCESS"
            ELSE IF \E c \in Range(req[r].result.tool_calls) : c.status = "OK"
            THEN "PARTIAL" ELSE "FAILED"

\* C10: when the skill reports success, one of its tool calls has status
\* PENDING_CONFIRM and no mutation succeeded, the receipt returned has status
\* PENDING_CONFIRM and no Change.
C10_PendingConfirmStatus ==
    \A r \in Reqs :
        ( /\ SkillReturned(req[r])
          /\ req[r].result.success
          /\ \E c \in Range(req[r].result.tool_calls) : c.status = "PENDING_CONFIRM"
          /\ mutations[r] = <<>> ) =>
        /\ req[r].receipt.status = "PENDING_CONFIRM"
        /\ req[r].receipt.changes = <<>>

\* decide has been asked about the attempts of the probe
ProbeDecided == probe # Null /\ probe.decision # Null

\* the same-model retry of decide applies to the probe
RetryApplies ==
    /\ Len(probe.attempts) > 0
    /\ probe.trigger \in {"INVALID_JSON", "VALIDATION_ERROR"}
    /\ CountPair(probe.attempts, PairOf(probe.attempts[Len(probe.attempts)])) < 2

C12_FallbackFirstUntried ==
    (ProbeDecided /\ probe.decision.action = "FALLBACK_NEXT_MODEL") =>
        LET chain == chains["BALANCED"]
            tried == DistinctPairs(probe.attempts)
        IN  /\ probe.decision.next \notin tried
            /\ \E i \in 1..Len(chain) :
                  /\ chain[i] = probe.decision.next
                  /\ \A j \in 1..(i - 1) : chain[j] \in tried

\* decide fell back to the second pair of a chain of four after its third
\* pair and then its first had been tried
C12_FallbackSkipsTried ==
    /\ ProbeDecided
    /\ probe.decision.action = "FALLBACK_NEXT_MODEL"
    /\ Len(chains["BALANCED"]) = 4
    /\ probe.decision.next = chains["BALANCED"][2]
    /\ Len(probe.attempts) = 2
    /\ PairOf(probe.attempts[1]) = chains["BALANCED"][3]
    /\ PairOf(probe.attempts[2]) = chains["BALANCED"][1]

\* C13: decide returns FAIL when attempts is empty and, when no same-model
\* retry applies, whenever attempts holds 3 distinct pairs or the chain has
\* no untried pair; after 6 attempts, 2 on each of 3 models, it returns FAIL
\* for every trigger.
C13_FailWhenExhausted ==
    ProbeDecided =>
        LET chain == chains["BALANCED"]
            tried == DistinctPairs(probe.attempts)
        IN  /\ Len(probe.attempts) = 0 => probe.decision.action = "FAIL"
            /\ ( /\ ~RetryApplies
                 /\ \/ Cardinality(tried) >= 3
                    \/ \A i \in 1..Len(chain) : chain[i] \in tried )
               => probe.decision.action = "FAIL"
            /\ ( /\ Len(probe.attempts) = 6
                 /\ Cardinality(tried) = 3
                 /\ \A p \in tried : CountPair(probe.attempts, p) = 2 )
               => probe.decision.action = "FAIL"

\* decide answered FAIL to an unparseable reply after 2 attempts on each of
\* the 3 models of the default chain
C13_FailAfterSix ==
    /\ ProbeDecided
    /\ probe.decision.action = "FAIL"
    /\ probe.trigger = "INVALID_JSON"
    /\ Len(probe.attempts) = 6
    /\ chains = DefaultChains
    /\ \A i \in 1..3 : CountPair(probe.attempts, DefaultChains["BALANCED"][i]) = 2

\* the distinct pairs of a list of attempts, in order of first appearance
RECURSIVE FirstSeen(_)
FirstSeen(atts) ==
    IF atts = <<>> THEN <<>>
    ELSE LET rest == FirstSeen(Take(atts, Len(atts) - 1))
             p == PairOf(atts[Len(atts)])
         IN  IF p \in Range(rest) THEN rest ELSE Append(rest, p)

IsPrefix(s, t) == Len(s) <= Len(t) /\ \A i \in 1..Len(s) : s[i] = t[i]

\* the records of one pair are next to each other
Contiguous(atts) ==
    \A i \in 1..Len(atts), k \in 1..Len(atts) :
        (i < k /\ PairOf(atts[i]) = PairOf(atts[k]))
            => \A j \in i..k : PairOf(atts[j]) = PairOf(atts[i])

\* two content failures, then a success
TwoContentFailuresThenSuccess(atts) ==
    /\ Len(atts) = 3
    /\ \A i \in 1..2 : ~atts[i].success /\ atts[i].fallback_trigger \in ContentTriggers
    /\ atts[3].success

\* the three records of the scenario: (m1,1,failed), (m1,2,failed), (m2,1,success)
ScenarioRecords(atts, chain) ==
    /\ Len(chain) >= 2
    /\ \A i \in 1..2 : PairOf(atts[i]) = chain[1] /\ atts[i].attempt_number = i
    /\ PairOf(atts[3]) = chain[2] /\ atts[3].attempt_number = 1

C14_DefaultModelOutsideEmptyChain ==
    \E r \in Reqs :
        /\ req[r].receipt # Null
        /\ chains[req[r].profile] = <<>>
        /\ Len(req[r].receipt.models_attempted) > 0

\* every adapter call of the request returned content the normalizer gave up
\* on: no attempt was skipped for a missing provider, raised or classified
AllCallsUnparseable(st) ==
    /\ Returned(st)
    /\ Len(GetModelChain(chains, st.profile)) = MaxModelsPerRequest
    /\ \A a \in Range(st.receipt.models_attempted) :
           ~a.success /\ a.fallback_trigger = "INVALID_JSON"

\* C15: when every adapter call of a request returns content that cannot be
\* normalized and the three providers of the chain are registered, the
\* receipt has six attempts, two per model of the chain in chain order, all
\* INVALID_JSON, no intent, status FAILED and the classification error.
C15_GarbageExhaustsChain ==
    \A r \in Reqs :
        AllCallsUnparseable(req[r]) =>
            LET st == req[r]
                atts == st.receipt.models_attempted
                chain == GetModelChain(chains, st.profile)
            IN  /\ Len(atts) = 6
                /\ \A k \in 1..3 :
                       /\ atts[2 * k - 1] = ModelAttempt(chain[k], 1, FALSE, "INVALID_JSON")
                       /\ atts[2 * k] = ModelAttempt(chain[k], 2, FALSE, "INVALID_JSON")
                /\ IntentFinal(st) = Null
                /\ st.receipt.status = "FAILED"
                /\ "Failed to classify intent after all attempts" \in Range(st.receipt.errors)

\* a request answered with garbage six times has returned its receipt
C15_SixGarbageReplies ==
    \E r \in Reqs :
        /\ AllCallsUnparseable(req[r])
        /\ Len(req[r].receipt.models_attempted) = 6
        /\ req[r].receipt.status = "FAILED"

\* the failed attempts of a receipt that record a recoverable failure: all
\* but those of the `except Exception` branch, which files an error instead
RecoverableFailures(receipt) ==
    LET atts == receipt.models_attempted
        failed == {i \in 1..Len(atts) :
                      ~atts[i].success /\ atts[i].fallback_trigger \in
                          {"INVALID_JSON", "VALIDATION_ERROR", "RATE_LIMIT", "PROVIDER_DOWN"}}
        unexpected == {i \in 1..Len(receipt.errors) :
                          receipt.errors[i] = "Unexpected error during classification"}
    IN  Cardinality(failed) - Cardinality(unexpected)

\* C16: every failed attempt recorded for a recoverable failure comes with a
\* warning, so a receipt has at least as many warnings as it has such attempts.
C16_WarningPerFailedAttempt ==
    \A r \in Reqs :
        req[r].receipt # Null =>
            Len(req[r].receipt.warnings) >= RecoverableFailures(req[r].receipt)

\* the step that takes back a change: the delete tool of the entity type,
\* on the id the change created
ReverseOf(change) ==
    UndoStep(CASE change.entity_type = "task" -> "TASK_DELETE"
               [] change.entity_type = "note" -> "NOTE_DELETE"
               [] change.entity_type = "calendar_block" -> "CALENDAR_DELETE_BLOCKS"
               [] change.entity_type = "workflow" -> "WORKFLOW_DELETE",
             change.entity_id)

\* C17: a receipt returned by execute has as many undo steps as changes, and
\* its i-th undo step takes back its i-th change.
C17_UndoPairsWithChanges ==
    \A r \in Reqs :
        Returned(req[r]) =>
            LET rc == req[r].receipt
            IN  /\ Len(rc.undo) = Len(rc.changes)
                /\ \A i \in 1..Len(rc.changes) :
                       /\ rc.changes[i].action = "created"
                       /\ rc.undo[i] = ReverseOf(rc.changes[i])

\* a receipt with a note and a task created, and the two steps back
C17_TwoChangesReturned ==
    \E r \in Reqs :
        /\ Returned(req[r])
        /\ Len(req[r].receipt.changes) = 2
        /\ req[r].receipt.changes[1].entity_type = "note"
        /\ req[r].receipt.changes[2].entity_type = "task"

\* C18: a tool that succeeds and reports changes reports an undo step too,
\* whichever tool it is and whether the MCP server or the in-memory storage
\* served the call.
C18_ChangesComeWithUndo ==
    (probe.by \in AllMutatingTools /\ probe.res.success /\ probe.res.changes # <<>>)
        => probe.res.undo_step # Null

\* all the undo steps of a capture_tasks run on the in-memory storage have
\* been dispatched, last first
CaptureUndone ==
    /\ probe.by = "capture_tasks"
    /\ ~probe.mcp
    /\ probe.res.changes # <<>>
    /\ probe.undo = <<>>
    /\ probe.dispatched = Len(probe.res.changes)

\* C19: after capture_tasks created n tasks on the in-memory storage and the
\* undo steps of its receipt were dispatched in reverse order, the task
\* collection is what it was before the skill ran.
C19_CaptureUndoRestores ==
    CaptureUndone => probe.w.tasks = probe.pre.tasks

\* two tasks captured next to a stored one, and both taken back
C19_TwoCapturedAndUndone ==
    /\ CaptureUndone
    /\ probe.dispatched = 2
    /\ probe.pre.tasks # {}

\* C20: after a successful writing tool call on the in-memory storage, the
\* tool of the returned undo step, executed with its args, leaves the
\* collection as it was before the call: same ids, same field values.
C20_UndoStepRestores ==
    (/\ probe.by \in AllMutatingTools
     /\ ~probe.mcp
     /\ probe.res.success /\ probe.res.changes # <<>> /\ probe.res.undo_step # Null
     /\ probe.dispatched = 1)
        => Collections(probe.w) = probe.pre

\* C21: ToolRegistry.execute on a registered tool of risk MEDIUM or HIGH,
\* confirmation not skipped, returns a PENDING_CONFIRM call and no result,
\* does not invoke the tool and leaves every collection as it was; a tool of
\* risk LOW is never gated.
C21_GateLeavesStorage ==
    (probe.by = "registry" /\ probe.call.tool_name \in RegisteredTools) =>
        /\ (RiskOf(probe.call.tool_name) \in {"MEDIUM", "HIGH"} /\ ~probe.call.skip_confirmation)
              => /\ probe.call.status = "PENDING_CONFIRM"
                 /\ probe.call.result = Null
                 /\ ~probe.call.invoked
                 /\ Collections(probe.w) = probe.pre
        /\ RiskOf(probe.call.tool_name) = "LOW"
              => probe.call.status # "PENDING_CONFIRM" /\ probe.call.invoked

\* CALENDAR_DELETE_BLOCKS on a stored block, gated
C21_DeleteBlocksGated ==
    /\ probe.by = "registry"
    /\ probe.call.tool_name = "CALENDAR_DELETE_BLOCKS"
    /\ probe.call.status = "PENDING_CONFIRM"
    /\ probe.pre.blocks # {}

\* C22: ToolRegistry.execute never raises to the skill that awaits it:
\* whatever happens in the tool body, the skill gets a ToolCall whose status
\* is OK or FAILED (PENDING_CONFIRM when gated).
C22_RegistryNeverRaises ==
    \A r \in Reqs :
        /\ ~(req[r].pc = "cancelled" /\ req[r].at = "awaiting_tool")
        /\ req[r].result # Null =>
              \A c \in Range(req[r].result.tool_calls) :
                  c.status \in {"OK", "FAILED", "PENDING_CONFIRM"}

\* C23: no step after validation changes the Intent: at return from execute
\* receipt.intent_final (type, confidence, parameters, raw_entities) equals
\* the Intent validate_intent returned, for every skill, capture_tasks with
\* a parameters.tasks list included.
C23_IntentFinalIsValidated ==
    \A r \in Reqs :
        (Returned(req[r]) /\ IntentFinal(req[r]) # Null) =>
            IntentFinal(req[r]) = req[r].validated

\* the codes of the errors in a ValidationResult
Codes(res) == {res.errors[i].code : i \in 1..Len(res.errors)}

\* C24: validate_intent never raises, whatever the JSON types of type,
\* confidence, parameters and raw_entities; in its result valid is true
\* exactly when errors is empty and intent is set.
C24_ValidateNeverRaises ==
    probe.by = "validate_intent" =>
        /\ ~probe.res.raised
        /\ probe.res.valid <=> (probe.res.errors = <<>> /\ probe.res.intent # Null)

\* C25: for a mapping that has both required keys, valid is true only for a
\* type that is one of the six names, and then the intent has that type;
\* every other type value, null included, gives valid = false with an
\* INVALID_INTENT_TYPE error.
C25_TypeIsOneOfSix ==
    (/\ probe.by = "validate_intent" /\ ~probe.res.raised
     /\ probe.data.type # "<absent>" /\ probe.data.confidence.kind # "absent") =>
        /\ probe.res.valid =>
              /\ probe.data.type \in IntentTypes
              /\ probe.res.intent.type = probe.data.type
        /\ probe.data.type \notin IntentTypes =>
              /\ ~probe.res.valid
              /\ "INVALID_INTENT_TYPE" \in Codes(probe.res)

\* C26: with a valid type (and nothing wrong in parameters and raw_entities)
\* a numeric confidence c is accepted exactly when 0 <= c <= 1, and rejected
\* with OUT_OF_RANGE otherwise; a confidence that is present and not a
\* number is rejected with INVALID_TYPE.
C26_ConfidenceRange ==
    (/\ probe.by = "validate_intent"
     /\ probe.data.type \in IntentTypes
     /\ probe.data.parameters \in {"<absent>", "empty"}
     /\ probe.data.raw_entities.kind \in {"<absent>", "list"}) =>
        LET c == probe.data.confidence
            inside == c.kind = "num" /\ 0 <= c.v /\ c.v <= 10
        IN  /\ c.kind \in {"num", "huge"} =>
                 /\ probe.res.valid <=> inside
                 /\ ~inside => "OUT_OF_RANGE" \in Codes(probe.res)
            /\ c.kind \in {"numstr", "text", "bool", "list"} =>
                 /\ ~probe.res.valid
                 /\ "INVALID_TYPE" \in Codes(probe.res)

\* C27: for every text that parses as a JSON object as it stands, normalize
\* succeeds with data equal to the parsed object and no repairs, and a second
\* call on the same text returns the same result.
C27_ObjectPassesThrough ==
    (probe.calls > 0 /\ JsonLoads(probe.text).kind = "dict") =>
        /\ probe.first.success
        /\ probe.first.data = [dict |-> JsonLoads(probe.text).value]
        /\ probe.first.repairs_applied = Null
        /\ probe.last = probe.first

\* an object with one member, normalized twice
C27_ObjectNormalizedTwice ==
    /\ probe.calls = 2
    /\ probe.text = <<"{", "k:", "1", "}">>
    /\ probe.last.success
    /\ probe.last.data = [dict |-> probe.text]

\* C28: after any sequence of create, update and delete each receipt_id keys
\* at most one row, the receipt stored in the row has that receipt_id, and
\* get(id) returns the receipt last created or updated under id, None when
\* there is none (never created, or deleted since); a create with a stored
\* receipt_id is rejected and leaves the table as it was.
C28_OneRowPerReceipt ==
    /\ \A id \in ReceiptIds : Cardinality(Stored(probe.table, UuidStr(id))) <= 1
    /\ \A i \in 1..Len(probe.table) :
          UuidStr(ModelValidateJson(probe.table[i].receipt_json).receipt_id)
              = probe.table[i].receipt_id
    /\ probe.out.op = "get" => probe.out.result = probe.last[probe.out.id]
    /\ (probe.out.op = "create" /\ probe.out.known) =>
          probe.out.raised /\ probe.table = probe.out.before

\* a create was rejected while two receipts are in the table, one of them
\* with status FAILED
C28_DuplicateRejected ==
    /\ probe.out.op = "create" /\ probe.out.raised
    /\ Len(probe.table) = 2
    /\ \E i \in 1..2 : probe.table[i].status = "FAILED"

\* C29: list(limit, offset, status) returns at most limit receipts, each with
\* the status of the filter, the later created before the earlier created
\* whatever their creation times; count(status) is the number of stored
\* receipts with that status.
C29_ListNewestFirst ==
    /\ probe.out.op = "list" =>
          /\ Len(probe.out.result) <= probe.out.limit
          /\ probe.out.status # "none" =>
                \A k \in 1..Len(probe.out.result) :
                    probe.out.result[k].status = probe.out.status
          /\ \A k \in 1..(Len(probe.out.picked) - 1) :
                probe.out.picked[k] > probe.out.picked[k + 1]
    /\ (probe.out.op = "count" /\ probe.out.status # "none") =>
          probe.out.result = Cardinality({id \in ReceiptIds :
                                 /\ probe.last[id] # Null
                                 /\ probe.last[id].status = probe.out.status})

\* C30: a configure_chain made while a request is suspended in its attempt
\* loop does not change the models the request falls back to: the models of
\* models_attempted, in the order of their first attempt, are the head of
\* the chain that was installed when execute was called (of the default
\* model alone when that chain was empty).
C30_InFlightKeepsChain ==
    \A r \in Reqs :
        req[r].receipt # Null =>
            IsPrefix(FirstSeen(req[r].receipt.models_attempted),
                     IF req[r].chain = <<>> THEN <<Llama1b>> ELSE req[r].chain)

\* the records of models_attempted made for an adapter call: those on a
\* registered provider
CallRecords(atts) == SelectSeq(atts, LAMBDA a : a.provider \in registered)

\* C31: with two execute calls interleaved, the models_attempted of each
\* receipt holds exactly the attempts made for its own request (its local
\* list, one record per adapter call made for it), and retry and fallback
\* follow the request's own attempts: attempt numbers count the own records,
\* and a first content failure on a pair is followed by a second attempt on
\* that pair.
C31_AttemptsOwnRequest ==
    \A r \in PairReqs :
        req[r].receipt # Null =>
            LET atts == req[r].receipt.models_attempted
                made == CallRecords(atts)
            IN  /\ atts = req[r].attempts
                /\ Len(made) = Len(req[r].called)
                /\ \A i \in 1..Len(made) : PairOf(made[i]) = req[r].called[i].pair
                /\ \A i \in 1..Len(atts) :
                      /\ atts[i].attempt_number = CountPair(Take(atts, i - 1), PairOf(atts[i])) + 1
                      /\ (atts[i].fallback_trigger \in ContentTriggers /\ atts[i].attempt_number = 1) =>
                            PairOf(atts[i]) = IF i < Len(atts) THEN PairOf(atts[i + 1])
                                              ELSE req[r].cur

\* both requests have returned, each after two or more adapter calls, with
\* different lists of attempts
C31_TwoRequestsReturned ==
    /\ \A r \in PairReqs : Returned(req[r]) /\ Len(req[r].called) >= 2
    /\ req[1].receipt.models_attempted # req[2].receipt.models_attempted

\* C32: when every adapter call and every tool call returns or raises, an
\* execute that is suspended on one of them returns its receipt (or is left
\* by the cancellation of its task).
C32_ExecuteReturns ==
    /\ \A r \in Reqs :
          (req[r].pc \in {"awaiting_model", "awaiting_tool"})
              ~> (Returned(req[r]) \/ req[r].pc = "cancelled")
    /\ [](\A r \in Reqs :
             Len(req[r].attempts) <= MaxAttemptsPerModel * MaxModelsPerRequest)

\* an execute has returned after six passes of the attempt loop
C32_ReturnedAfterSix ==
    \E r \in Reqs : Returned(req[r]) /\ Len(req[r].receipt.models_attempted) = 6

\* C33: in every receipt, the attempt_number of a ModelAttempt is 1 plus the
\* number of earlier records of models_attempted on the same (provider,
\* model) pair, whatever made the record.
C33_AttemptNumberCountsPair ==
    \A r \in Reqs :
        req[r].receipt # Null =>
            LET atts == req[r].receipt.models_attempted
            IN  \A i \in 1..Len(atts) :
                    atts[i].attempt_number = 1 + CountPair(Take(atts, i - 1), PairOf(atts[i]))

\* a returned receipt holds a second record on a pair, made after records on
\* another pair, and a record made for a provider that was not registered
C33_SecondAfterOthers ==
    \E r \in Reqs :
        /\ Returned(req[r])
        /\ LET atts == req[r].receipt.models_attempted
           IN  /\ \E i \in 3..Len(atts) : atts[i].attempt_number = 2
               /\ \E i \in 1..Len(atts) : atts[i].fallback_trigger = "PROVIDER_DOWN"
        /\ \E i \in 1..Len(req[r].receipt.warnings) :
              req[r].receipt.warnings[i] = "Provider not available"

\* C34: an adapter call carries the repair prompt exactly when it is the
\* second attempt on its (provider, model) pair, which is exactly when the
\* decision before it was RETRY_SAME_MODEL with use_repair_prompt set; the
\* first call on a pair, also after FALLBACK_NEXT_MODEL, has the base prompt.
C34_RepairOnSecondAttempt ==
    \A r \in Reqs :
        /\ req[r].pc = "awaiting_model" =>
              /\ req[r].use_repair <=> CountPair(req[r].attempts, req[r].cur) = 1
              /\ req[r].use_repair <=> req[r].decision = <<"RETRY_SAME_MODEL", "+repair">>
              /\ ~req[r].use_repair <=> CountPair(req[r].attempts, req[r].cur) = 0
        /\ \A i \in 1..Len(req[r].called) :
              req[r].called[i].use_repair <=>
                  Cardinality({j \in 1..(i - 1) :
                                  req[r].called[j].pair = req[r].called[i].pair}) = 1

\* a repair prompt is out on the second model of the request, whose first
\* call, made after the fallback, had the base prompt
C34_RepairAfterFallback ==
    \E r \in Reqs :
        /\ req[r].pc = "awaiting_model" /\ req[r].use_repair
        /\ Len(req[r].called) = 3
        /\ req[r].called[3] = [pair |-> req[r].cur, use_repair |-> FALSE]
        /\ req[r].called[1].pair # req[r].cur
        /\ req[r].called[2].use_repair

\* C35: when the text does not parse as it stands and has fenced blocks,
\* normalize succeeds with the first fenced body that begins with { or [ and
\* parses, and records extracted_from_markdown: an earlier fenced body that
\* does not parse does not keep a later one from being used.
C35_FirstParsableBlock ==
    probe.calls > 0 =>
        LET bodies == FencedBodies(probe.text)
            good == {k \in 1..Len(bodies) :
                        /\ bodies[k] # <<>>
                        /\ Head(bodies[k]) \in {"{", "["}
                        /\ TryParse(bodies[k]).success}
        IN  (~TryParse(probe.text).success /\ good # {}) =>
                /\ probe.last.success
                /\ probe.last.data = TryParse(bodies[Min(good)]).data
                /\ probe.last.repairs_applied = <<"extracted_from_markdown">>

\* C36: in every receipt execute returns, at most one ModelAttempt has
\* success set, it is the last of models_attempted and has no
\* fallback_trigger, every failed attempt has one, and intent_final is set
\* exactly when there is a successful attempt.
C36_OneSuccessLast ==
    \A r \in Reqs :
        Returned(req[r]) =>
            LET atts == req[r].receipt.models_attempted
                won == {i \in 1..Len(atts) : atts[i].success}
            IN  /\ Cardinality(won) <= 1
                /\ won \subseteq {Len(atts)}
                /\ \A i \in 1..Len(atts) :
                      IF atts[i].success THEN atts[i].fallback_trigger = "none"
                      ELSE atts[i].fallback_trigger \in FallbackTriggers
                /\ req[r].receipt.intent_set <=> won # {}

\* a returned receipt whose successful attempt comes after failed ones
C36_SuccessAfterFailures ==
    \E r \in Reqs :
        /\ Returned(req[r])
        /\ req[r].receipt.intent_set
        /\ Len(req[r].receipt.models_attempted) >= 3
        /\ req[r].receipt.models_attempted[Len(req[r].receipt.models_attempted)].success

\* C37: under every interleaving of register, unregister and check_health
\* the health cache has an entry for a name only while the name is
\* registered, and the entry was produced by the adapter registered under it.
C37_CacheFollowsRegistry ==
    \A name \in ProviderNames :
        probe.health_cache[name] # Null =>
            /\ probe.providers[name] # 0
            /\ probe.health_cache[name].by = probe.providers[name]

\* C38: after any sequence of register and unregister, a skill that
\* get_for_intent returns is registered under its name (get(skill.name) is
\* that skill), and after unregister(name) no intent maps to the skill it
\* removed.
C38_IntentMapFollowsSkills ==
    /\ \A t \in RegistryTypes :
          GetForIntent(t) # Null => probe.skills[GetForIntent(t).name] = GetForIntent(t)
    /\ probe.removed # Null =>
          \A t \in RegistryTypes : GetForIntent(t) # probe.removed

\* the second half of C38 alone: unregister leaves no mapping to the skill
\* it removed
C38_UnregisterClearsMappings ==
    probe.removed # Null => \A t \in RegistryTypes : GetForIntent(t) # probe.removed

\* C39: in every receipt execute returns, the changes come from dispatched
\* tool calls: when changes is not empty, tool_calls holds a call with
\* status OK, whichever shipped skill ran.
C39_ChangesHaveToolCalls ==
    \A r \in Reqs :
        (Returned(req[r]) /\ req[r].receipt.changes # <<>>) =>
            \E i \in 1..Len(req[r].receipt.tool_calls) :
                req[r].receipt.tool_calls[i].status = "OK"

\* C40: a workflow stored by build_workflow or by WORKFLOW_SAVE, also one
\* called with enabled=true, is stored with enabled=false; no execute sets
\* the flag; a workflow is enabled only by a WORKFLOW_ENABLE that the registry
\* dispatched with confirmation skipped.
C40_EnabledOnlyByDispatch ==
    /\ probe.last.stored # 0 =>
          \E e \in ById(probe.w.workflows, probe.last.stored) : ~e.enabled
    /\ probe.last.op \in {"build_workflow", "skill"} => probe.last.newly = {}
    /\ probe.last.newly # {} =>
          /\ probe.last.op = "dispatch" /\ probe.last.tool = "WORKFLOW_ENABLE"
          /\ probe.last.skip_confirmation /\ probe.last.ran
    /\ \A e \in probe.w.workflows : e.enabled => e.id \in probe.enabled_by

\* WORKFLOW_SAVE was dispatched with enabled=true next to a workflow that a
\* confirmed WORKFLOW_ENABLE has enabled
C40_SavedDisabledNextToEnabled ==
    /\ probe.last.op = "dispatch" /\ probe.last.tool = "WORKFLOW_SAVE"
    /\ probe.last.ran /\ probe.last.args.enabled
    /\ \E e \in probe.w.workflows : e.id = probe.last.stored /\ ~e.enabled
    /\ \E e \in probe.w.workflows : e.enabled

====
